---- MODULE Spec2Model ----
(***************************************************************************)
(* Cross-thread dispatch protocol of the gtkx native module.               *)
(*                                                                         *)
(* Two threads: the scripting (JS) thread, which enters call(),            *)
(* batchCall() and stop() and runs callbacks, and the loop (GTK) thread,   *)
(* which runs the GLib main loop, drains the task queue and blocks in      *)
(* callback trampolines.  Each thread is modelled as a stack of frames;    *)
(* every step of a frame is one access to the shared state (an atomic, a   *)
(* queue under its mutex, one end of an mpsc channel).                     *)
(***************************************************************************)
EXTENDS Integers, Sequences, FiniteSets, TLC

\* ------------------------------------------------------------------ bounds
\* Operations (call, batchCall, stop) the scripting side starts in one run.
MaxOps == 3
\* Callbacks the loop thread fires in one run (from tasks and from signals).
MaxCallbacks == 2
\* Signals the main loop fires on its own (not from inside a task).
MaxSignals == 1
\* Frames on the scripting thread's stack (nesting of calls and callbacks).
MaxJsStack == 3
\* Identities the registry may issue, and distinct native addresses.
MaxObjects == 3
MaxAddr == 2

OpIds == 1..MaxOps
CbIds == 1..MaxCallbacks
\* Identities: every one that can be issued and one that never is.
ObjIds == 1..(MaxObjects + 1)
Addrs == 1..MaxAddr

VARIABLES
    QUEUE,              \* gtk_dispatch::QUEUE, the loop-thread task queue
    DISPATCH_SCHEDULED, \* gtk_dispatch::DISPATCH_SCHEDULED
    STOPPED,            \* gtk_dispatch::STOPPED
    JS_WAIT_DEPTH,      \* gtk_dispatch::JS_WAIT_DEPTH
    idle_sources,       \* idle sources (dispatch_batch) pending in the main context
    pending,            \* js_dispatch::QUEUE.pending, callbacks for the wait loop
    channel,            \* closures sent on the Neon channel, not yet run
    result,             \* per operation: state of its mpsc result channel
    cb,                 \* per callback: origin, owner, path, waiter, state of its result channel
    js,                 \* scripting thread: stack of frames
    gtk,                \* loop thread: stack of frames
    app_hold_guard,     \* GtkThreadState.app_hold_guard is Some
    loop_running,       \* the loop thread is inside app.run
    enqueued,           \* history: task ids in the order schedule() pushed them
    started,            \* history: task ids in the order their execution began
    next_op,            \* next operation id
    next_cb,            \* next callback id
    signals             \* signals fired by the main loop so far

\* The object registry of the loop thread (GtkThreadState) and what the scripting
\* side holds of it.
VARIABLES
    object_map,       \* GtkThreadState.object_map: identity -> native address
    next_object_id,   \* GtkThreadState.next_object_id
    issued,           \* history: identities returned by ObjectId::new, in order
    finalized,        \* identities whose JsBox wrapper has been finalized
    op_obj,           \* per operation: the identity it was given (0: none)
    op_arg,           \* per operation: the type descriptor of the argument holding it
    op_val,           \* per operation: what its task sent back (a finalizer awaits nothing)
    native_ptrs,      \* history: <<identity, pointer>> pairs handed to native code
    accessors         \* history: threads that have touched the registry

\* The second task queue (ffi_source), used by alloc() and write().
VARIABLES
    FFI_QUEUE,
    FFI_DISPATCH_SCHEDULED,
    ffi_idle_sources

\* The marshaling boundary, for the properties of single conversions: one record
\* holding the input that was drawn and what the conversion produced.
VARIABLE conv

registry == <<object_map, next_object_id, issued, finalized, op_obj, op_arg, op_val,
              native_ptrs, accessors>>
ffi_source == <<FFI_QUEUE, FFI_DISPATCH_SCHEDULED, ffi_idle_sources>>
ext == <<registry, ffi_source, conv>>

shared == <<QUEUE, DISPATCH_SCHEDULED, STOPPED, JS_WAIT_DEPTH, idle_sources>>
dispatch == <<QUEUE, DISPATCH_SCHEDULED, STOPPED, JS_WAIT_DEPTH, idle_sources,
          pending, channel, result, cb, js, gtk, app_hold_guard, loop_running,
          enqueued, started, next_op, next_cb, signals>>
vars == <<dispatch, ext>>

\* ------------------------------------------------------------- stack helpers
Top(s) == s[Len(s)]
Pop(s) == SubSeq(s, 1, Len(s) - 1)
SetTopPc(s, p) == [s EXCEPT ![Len(s)].pc = p]

JsFrame(k, pc, id) == [k |-> k, pc |-> pc, id |-> id]
GtkFrame(k, pc, id, flag) == [k |-> k, pc |-> pc, id |-> id, flag |-> flag]

JsTopIs(k, pc) == js # <<>> /\ Top(js).k = k /\ Top(js).pc = pc
JsTopIn(ks, pc) == js # <<>> /\ Top(js).k \in ks /\ Top(js).pc = pc
GtkTopIs(k, pc) == gtk # <<>> /\ Top(gtk).k = k /\ Top(gtk).pc = pc

CallKinds == {"call", "batchCall"}
OpKinds == {"call", "batchCall", "stop", "getObjectId", "read", "finalize"}
\* Operations that go through ffi_source::schedule.
FfiKinds == {"alloc", "write"}

\* Ids of the call()/batchCall() frames on the scripting stack, innermost last.
RECURSIVE CallFrameIds(_)
CallFrameIds(s) ==
    IF s = <<>> THEN <<>>
    ELSE IF Top(s).k \in CallKinds
         THEN Append(CallFrameIds(Pop(s)), Top(s).id)
         ELSE CallFrameIds(Pop(s))

\* The call whose wait loop is the innermost one on the scripting stack (0: none).
InnermostCall ==
    LET ids == CallFrameIds(js) IN IF ids = <<>> THEN 0 ELSE ids[Len(ids)]

\* ------------------------------------------------------------ the task queue
\* crate::queue::Queue<Task>: a FIFO with push, pop and is_empty.
Queue_push(q, t) == Append(q, t)
Queue_is_empty(q) == q = <<>>
Queue_front(q) == Head(q)
Queue_pop(q) == Tail(q)

\* js_dispatch::DispatchQueue: VecDeque push_back / pop_front under a mutex.
DispatchQueue_push(q, c) == Append(q, c)
DispatchQueue_front(q) == Head(q)
DispatchQueue_pop(q) == Tail(q)

\* Number of callbacks pushed on, and popped from, the synchronous queue so far.
PushedCount(f) == Cardinality({c \in DOMAIN f : f[c].pushed > 0})
PoppedCount(f) == Cardinality({c \in DOMAIN f : f[c].popped > 0})

\* ------------------------------------------------------- waiting-depth atomics
\* Variant: the depth test is off by one, so a single waiting call is not seen.
is_js_waiting_above_one(d) == d > 1
is_js_waiting(d) == d > 0
enter_js_wait(d) == d + 1
exit_js_wait(d) == d - 1

\* ---------------------------------------------------------------- registry
\* HashMap::new(), and the value of an operation that produced nothing.
EmptyMap == [x \in {} |-> 0]
NoValue == [t |-> "none"]

\* Variant: the smallest identity that is not in the map is handed out again.
ObjectId_new_reusing(map, next, addr) ==
    LET free == CHOOSE n \in 1..next : n \notin DOMAIN map /\ \A k \in 1..(n - 1) : k \in DOMAIN map
    IN [map |-> (free :> addr) @@ map, next |-> next + 1, id |-> free]

\* ObjectId::new: take the counter as identity, advance it, insert the object.
ObjectId_new(map, next, addr) ==
    [map |-> (next :> addr) @@ map, next |-> next + 1, id |-> next]

\* The registry when start() has returned: the loop thread's GtkThreadState
\* started from its default (empty map, next_object_id 1) and start() registered
\* the application with ObjectId::new before it took the hold guard; the
\* identity was sent to the scripting side, which holds its wrapper.
StartedRegistry == ObjectId_new(EmptyMap, 1, 1)

\* ObjectId::new for each pointer of a list, in order.
RECURSIVE ObjectId_new_each(_, _, _)
ObjectId_new_each(map, next, addrs) ==
    IF addrs = <<>> THEN [map |-> map, next |-> next, ids |-> <<>>]
    ELSE LET n == ObjectId_new(map, next, Head(addrs))
             r == ObjectId_new_each(n.map, n.next, Tail(addrs))
         IN [map |-> r.map, next |-> r.next, ids |-> <<n.id>> \o r.ids]

\* The identities ObjectId::new hands out for a list of pointers.
NewIds(addrs) == [j \in 1..Len(addrs) |-> next_object_id + j - 1]

\* Lists of at most n pointers that the registry's bound has room for.
PointerLists(n) ==
    UNION {[1..k -> Addrs] : k \in {m \in 0..n : next_object_id + m <= MaxObjects + 1}}

\* The pointers of a list are registered on the loop thread, in order.
register_each(addrs) ==
    /\ LET r == ObjectId_new_each(object_map, next_object_id, addrs) IN
         /\ object_map' = r.map
         /\ next_object_id' = r.next
         /\ issued' = issued \o r.ids
    /\ accessors' = accessors \cup {"loop"}
    /\ UNCHANGED <<finalized, op_obj, op_arg, op_val, native_ptrs>>

\* ObjectId::as_ptr: `object_map.get(&self.0).map(..)`.
ObjectId_as_ptr(map, id) ==
    IF id \in DOMAIN map THEN [t |-> "some", ptr |-> map[id]] ELSE [t |-> "none"]

\* Variant: the removal empties the map.
object_map_clear(map, id) == EmptyMap

\* The task scheduled by Finalize for ObjectId: `object_map.remove(&self.0)`.
object_map_remove(map, id) == [x \in DOMAIN map \ {id} |-> map[x]]

\* Identities for which the scripting side holds a live wrapper, not finalized
\* since: returned by start() (`cx.boxed(app_object_id)`), returned by a call,
\* alone or as the items of a list (Value::to_js_value boxes every ObjectId), or
\* handed to a callback that has been executed as its arguments
\* (execute_callback converts them with to_js_value).
Range(f) == {f[x] : x \in DOMAIN f}

\* The identities scripting code can pass to an operation: an ObjectId reaches
\* it only out of ObjectId::new, and a copy of it (ObjectId is Copy, to_js_value
\* boxes `*id`) can outlive the wrapper whose finalizer removed the entry.
IssuedIds == {issued[n] : n \in 1..Len(issued)}

Wrappers ==
    ({StartedRegistry.id}
        \cup {op_val[i].id : i \in {j \in OpIds : result[j] = "taken" /\ op_val[j].t = "object"}}
        \cup UNION {Range(op_val[i].ids) :
                        i \in {j \in OpIds : result[j] = "taken" /\ op_val[j].t = "array"}}
        \cup UNION {Range(cb[c].args) :
                        c \in {d \in CbIds : cb[d].st \in {"running", "sent", "taken"}}})
        \ finalized

\* ------------------------------------------------------------------- Init
Init ==
    /\ QUEUE = <<>>
    /\ DISPATCH_SCHEDULED = FALSE
    /\ STOPPED = FALSE
    /\ JS_WAIT_DEPTH = 0
    /\ idle_sources = 0
    /\ pending = <<>>
    /\ channel = <<>>
    /\ result = [i \in OpIds |-> "unused"]
    /\ cb = [c \in CbIds |-> [origin |-> "none", owner |-> 0, path |-> "none",
                              waiter |-> 0, st |-> "unused",
                              pushed |-> 0, ahead |-> 0, popped |-> 0, args |-> <<>>]]
    /\ js = <<>>
    /\ gtk = <<>>
    /\ app_hold_guard = TRUE
    /\ loop_running = TRUE
    /\ enqueued = <<>>
    /\ started = <<>>
    /\ next_op = 1
    /\ next_cb = 1
    /\ signals = 0
    /\ object_map = StartedRegistry.map
    /\ next_object_id = StartedRegistry.next
    /\ issued = <<StartedRegistry.id>>
    /\ finalized = {}
    /\ op_obj = [i \in OpIds |-> 0]
    /\ op_arg = [i \in OpIds |-> "gobject"]
    /\ op_val = [i \in OpIds |-> NoValue]
    /\ native_ptrs = {}
    /\ accessors = {"loop"}
    /\ FFI_QUEUE = <<>>
    /\ FFI_DISPATCH_SCHEDULED = FALSE
    /\ ffi_idle_sources = 0
    /\ conv = [phase |-> "idle"]

\* =========================================================================
\* Scalars across the boundary: `number as <int>`, `as f32`, `as f64`
\* =========================================================================

\* Numbers are kept exactly.  pow: sign * m * 2^e with m odd (zero: m = 0,
\* e = 0); ones: sign * (2^w - 1), used for w > 30 only.
FracBits == 2
MaxExp == 64
F32Mantissa == 24
F64Mantissa == 53

Zero == [f |-> "pow", s |-> 1, m |-> 0, e |-> 0]

RECURSIVE BitLen(_)
BitLen(m) == IF m = 0 THEN 0 ELSE 1 + BitLen(m \div 2)

RECURSIVE Norm(_, _, _)
Norm(s, m, e) ==
    IF m = 0 THEN Zero
    ELSE IF m % 2 = 0 THEN Norm(s, m \div 2, e + 1)
    ELSE [f |-> "pow", s |-> s, m |-> m, e |-> e]

MkOnes(s, w) ==
    IF w <= 30 THEN Norm(s, 2^w - 1, 0) ELSE [f |-> "ones", s |-> s, w |-> w]

IsIntegral(v) == v.f = "ones" \/ v.e >= 0

\* Number of bits of the magnitude of an integral number.
Bits(v) == IF v.f = "ones" THEN v.w ELSE BitLen(v.m) + v.e

\* Rounding toward zero.
Trunc(v) ==
    IF IsIntegral(v) THEN v
    ELSE IF -v.e > 30 THEN Zero
    ELSE Norm(v.s, v.m \div (2^(-v.e)), 0)

\* `number as uN` / `number as iN` on an f64: rounds toward zero and saturates
\* at the bounds of the target type.
cast_f64_to_int(v, size, signed) ==
    LET t == Trunc(v) IN
    IF t = Zero THEN Zero
    ELSE IF ~signed
         THEN IF t.s = -1 THEN Zero
              ELSE IF Bits(t) > size THEN MkOnes(1, size) ELSE t
    ELSE IF Bits(t) <= size - 1 THEN t
    ELSE IF t.s = 1 THEN MkOnes(1, size - 1)
    ELSE [f |-> "pow", s |-> -1, m |-> 1, e |-> size - 1]

\* Round to nearest, ties to even, to a mantissa of `bits` bits.
RoundMantissa(v, bits) ==
    IF v.f = "ones"
    THEN IF v.w <= bits THEN v ELSE [f |-> "pow", s |-> v.s, m |-> 1, e |-> v.w]
    ELSE LET len == BitLen(v.m)
             k == len - bits
             q == v.m \div (2^k)
             r == v.m % (2^k)
             half == 2^(k - 1)
             up == r > half \/ (r = half /\ q % 2 = 1)
         IN IF len <= bits THEN v
            ELSE Norm(v.s, IF up THEN q + 1 ELSE q, v.e + k)

\* `number as f32`.
cast_f64_to_f32(v) == RoundMantissa(v, F32Mantissa)

\* `*v as f64` on an integer or an f32.
cast_to_f64(v) == RoundMantissa(v, F64Mantissa)

ScalarTypes ==
    [k : {"int"}, size : {8, 16, 32, 64}, signed : BOOLEAN]
        \cup [k : {"float"}, size : {32, 64}, signed : {TRUE}]
        \cup [k : {"boolean"}, size : {8}, signed : {FALSE}]

Mantissas == {1, 3, 255, 65535, 2^F32Mantissa - 1, 2^F32Mantissa + 1, 2^30 - 1}

\* The numbers a dynamic value can hold are f64s: at most 53 bits of mantissa.
Numbers ==
    {Zero}
        \cup [f : {"pow"}, s : {1, -1}, m : Mantissas, e : (-FracBits)..MaxExp]
        \cup [f : {"ones"}, s : {1, -1}, w : 31..F64Mantissa]

ScalarValues ==
    [tag : {"number"}, num : Numbers] \cup [tag : {"boolean"}, b : BOOLEAN]

\* cif::Value variant chosen by the Integer arm.
IntVariant(size, signed) ==
    CASE size = 8  -> IF signed THEN "I8" ELSE "U8"
      [] size = 16 -> IF signed THEN "I16" ELSE "U16"
      [] size = 32 -> IF signed THEN "I32" ELSE "U32"
      [] size = 64 -> IF signed THEN "I64" ELSE "U64"

CifError == [ty |-> "error"]

\* Variant: the 32-bit float arm keeps only 23 bits of mantissa.
Value_try_from_scalar_short_f32(t, v) ==
    CASE t.k = "int" ->
            IF v.tag # "number" THEN CifError
            ELSE [ty |-> IntVariant(t.size, t.signed),
                  v |-> cast_f64_to_int(v.num, t.size, t.signed)]
      [] t.k = "float" ->
            IF v.tag # "number" THEN CifError
            ELSE IF t.size = 32 THEN [ty |-> "F32", v |-> RoundMantissa(v.num, F32Mantissa - 1)]
            ELSE [ty |-> "F64", v |-> v.num]
      [] t.k = "boolean" ->
            IF v.tag # "boolean" THEN CifError
            ELSE [ty |-> "U8", v |-> IF v.b THEN Norm(1, 1, 0) ELSE Zero]

\* TryFrom<Arg> for cif::Value, Integer, Float and Boolean arms.
Value_try_from_scalar(t, v) ==
    CASE t.k = "int" ->
            IF v.tag # "number" THEN CifError
            ELSE [ty |-> IntVariant(t.size, t.signed),
                  v |-> cast_f64_to_int(v.num, t.size, t.signed)]
      [] t.k = "float" ->
            IF v.tag # "number" THEN CifError
            ELSE IF t.size = 32 THEN [ty |-> "F32", v |-> cast_f64_to_f32(v.num)]
            ELSE [ty |-> "F64", v |-> v.num]
      [] t.k = "boolean" ->
            IF v.tag # "boolean" THEN CifError
            ELSE [ty |-> "U8", v |-> IF v.b THEN Norm(1, 1, 0) ELSE Zero]

ValueError == [tag |-> "error"]

\* Value::from_cif_value, Integer | Float and Boolean arms.
Value_from_cif_value(c, t) ==
    CASE t.k \in {"int", "float"} ->
            IF c.ty = "error" THEN ValueError
            ELSE [tag |-> "number", num |-> cast_to_f64(c.v)]
      [] t.k = "boolean" ->
            IF c.ty # "U8" THEN ValueError
            ELSE [tag |-> "boolean", b |-> c.v # Zero]

\* =========================================================================
\* What a trampoline hands back to native code
\* =========================================================================
CallbackNumbers ==
    {Zero, Norm(1, 1, 0), Norm(-1, 1, 0), Norm(1, 3, -1), Norm(1, 1, 40)}

\* What the scripting callback returns.
JsValues ==
    {[tag |-> "undefined"], [tag |-> "null"], [tag |-> "string"]}
        \cup [tag : {"boolean"}, b : BOOLEAN]
        \cup [tag : {"number"}, num : CallbackNumbers]

\* The callback returns a value, throws, or its result sender is dropped
\* without a result being sent.
JsOutcomes ==
    [k : {"return"}, v : JsValues] \cup {[k |-> "throw"], [k |-> "disconnect"]}

ReturnTypes == {"boolean", "integer", "string", "undefined"}

NoGValue == [some |-> FALSE]
SomeGValue(v) == [some |-> TRUE, v |-> v]

\* js_dispatch::execute_callback: Err(()) when the call throws, the converted
\* result when it is captured, Undefined when it is not.
execute_callback(capture_result, outcome) ==
    IF outcome.k = "throw" THEN [ok |-> FALSE]
    ELSE [ok |-> TRUE, value |-> IF capture_result THEN outcome.v ELSE [tag |-> "undefined"]]

\* impl From<Value> for Option<glib::Value>.
into_glib_value(value) ==
    IF value.tag \in {"number", "string", "boolean"} THEN SomeGValue(value) ELSE NoGValue

\* Variant: an undefined value gets no default.
into_glib_value_plain(value, return_type) == into_glib_value(value)

\* Value::into_glib_value_with_default.
into_glib_value_with_default(value, return_type) ==
    IF value.tag = "undefined"
    THEN CASE return_type = "boolean" -> SomeGValue([tag |-> "boolean", b |-> FALSE])
           [] return_type = "integer" -> SomeGValue([tag |-> "number", num |-> Zero])
           [] OTHER -> NoGValue
    ELSE into_glib_value(value)

\* The capture_result flag each trampoline kind passes.
capture_result(trampoline) == trampoline \in {"closure", "sourceFunc", "compareDataFunc"}

\* The on_result closure of each trampoline kind.
on_result(trampoline, return_type, res) ==
    CASE trampoline = "closure" ->
            IF res.ok THEN into_glib_value_with_default(res.value, return_type)
            ELSE into_glib_value_with_default([tag |-> "undefined"], return_type)
      [] trampoline = "sourceFunc" ->
            IF res.ok THEN into_glib_value(res.value)
            ELSE SomeGValue([tag |-> "boolean", b |-> FALSE])
      [] trampoline = "compareDataFunc" ->
            IF res.ok /\ res.value.tag = "number"
            THEN SomeGValue([tag |-> "number",
                             num |-> cast_f64_to_int(res.value.num, 32, TRUE)])
            ELSE SomeGValue([tag |-> "number", num |-> Zero])
      [] OTHER -> NoGValue

\* wait_for_js_result: the result received is given to on_result; a
\* disconnected receiver panics.
wait_for_js_result(trampoline, return_type, outcome) ==
    IF outcome.k = "disconnect" THEN [panic |-> TRUE]
    ELSE [panic |-> FALSE,
          handed |-> on_result(trampoline, return_type,
                               execute_callback(capture_result(trampoline), outcome))]

\* =========================================================================
\* Fields of allocated boxed memory
\* =========================================================================
AllocSize == 8
FieldOffsets == {0, 4}

FieldNumbers == {Zero, Norm(1, 21, 1), Norm(-1, 1, 0), Norm(1, 3, -1), Norm(1, 1, 40)}
FieldValues ==
    [tag : {"number"}, num : FieldNumbers] \cup [tag : {"boolean"}, b : BOOLEAN]

\* Bytes a scalar of type t occupies.
SizeOf(t) == t.size \div 8

\* The native representation handle_read reinterprets the bytes as.
NativeTy(t) ==
    CASE t.k = "int" -> IntVariant(t.size, t.signed)
      [] t.k = "float" -> IF t.size = 32 THEN "F32" ELSE "F64"
      [] t.k = "boolean" -> "U8"

\* Byte k of a native value: a zero value is all zero bytes; the bytes of any
\* other value are identified by the value and the position.
ZeroByte == [ty |-> "zero", v |-> Zero, i |-> 0]

Cell(nat, k) == IF nat.v = Zero THEN ZeroByte ELSE [ty |-> nat.ty, v |-> nat.v, i |-> k]

\* g_malloc0(size).
g_malloc0(size) == [j \in 1..size |-> ZeroByte]

\* Variant: the store is one byte wider than the type.
write_field_wide(mem, t, offset, v) ==
    LET nat == Value_try_from_scalar(t, v) IN
    IF nat = CifError THEN [ok |-> FALSE, mem |-> mem]
    ELSE [ok |-> TRUE,
          mem |-> [j \in 1..Len(mem) |->
                     IF j - 1 \in offset..(offset + SizeOf(t))
                     THEN Cell(nat, j - 1 - offset) ELSE mem[j]]]

\* handle_write on a resolved pointer: the value is cast to the field type and
\* stored with write_unaligned at ptr + offset; a value that does not match
\* the type is an error and nothing is stored.
write_field(mem, t, offset, v) ==
    LET nat == Value_try_from_scalar(t, v) IN
    IF nat = CifError THEN [ok |-> FALSE, mem |-> mem]
    ELSE [ok |-> TRUE,
          mem |-> [j \in 1..Len(mem) |->
                     IF j - 1 \in offset..(offset + SizeOf(t) - 1)
                     THEN Cell(nat, j - 1 - offset) ELSE mem[j]]]

\* handle_read on a resolved pointer: read_unaligned of the field type at
\* ptr + offset, then `as f64` / `!= 0`.  Bytes that are not one whole value of
\* that representation are reinterpreted.
read_field(mem, t, offset) ==
    LET cells == SubSeq(mem, offset + 1, offset + SizeOf(t))
        whole(c) == /\ c # ZeroByte
                    /\ c.ty = NativeTy(t)
                    /\ \A k \in 1..Len(cells) : cells[k] = [c EXCEPT !.i = k - 1]
    IN IF \A k \in 1..Len(cells) : cells[k] = ZeroByte
       THEN Value_from_cif_value([ty |-> NativeTy(t), v |-> Zero], t)
       ELSE IF whole(cells[1])
            THEN Value_from_cif_value([ty |-> cells[1].ty, v |-> cells[1].v], t)
            ELSE [tag |-> "reinterpreted"]

NoAccess == [type |-> "none"]

\* =========================================================================
\* Scripting thread
\* =========================================================================

\* Scripting code runs from the event loop (empty stack) or inside a callback.
JsCanStart ==
    /\ (js = <<>> \/ JsTopIs("cb", "run"))
    /\ next_op <= MaxOps
    /\ Len(js) < MaxJsStack

AfterSchedule(k) ==
    IF k \in CallKinds THEN "process_pending"
    ELSE IF k = "finalize" THEN "return"
    ELSE "recv"

\* call() / batch_call(): create the result channel, enter_js_wait(), then schedule().
CallEntry(op) ==
    /\ JsCanStart
    /\ JS_WAIT_DEPTH' = enter_js_wait(JS_WAIT_DEPTH)
    /\ result' = [result EXCEPT ![next_op] = "empty"]
    /\ js' = Append(js, JsFrame(op, "load_stopped", next_op))
    /\ next_op' = next_op + 1
    /\ UNCHANGED <<QUEUE, DISPATCH_SCHEDULED, STOPPED, idle_sources, pending, channel,
                   cb, gtk, app_hold_guard, loop_running, enqueued, started, next_cb, signals>>
    /\ UNCHANGED ext

call == CallEntry("call")

batch_call == CallEntry("batchCall")

\* stop(): create the completion channel, then schedule(); no enter_js_wait().
stop ==
    /\ JsCanStart
    /\ result' = [result EXCEPT ![next_op] = "empty"]
    /\ js' = Append(js, JsFrame("stop", "load_stopped", next_op))
    /\ next_op' = next_op + 1
    /\ UNCHANGED <<shared, pending, channel, cb, gtk, app_hold_guard, loop_running,
                   enqueued, started, next_cb, signals>>
    /\ UNCHANGED ext

\* Variant: schedule() without the STOPPED test; the task is always pushed.
schedule_without_stopped_test ==
    /\ JsTopIn(OpKinds, "load_stopped")
    /\ js' = SetTopPc(js, "push")
    /\ UNCHANGED <<shared, pending, channel, result, cb, gtk, app_hold_guard,
                   loop_running, enqueued, started, next_op, next_cb, signals>>
    /\ UNCHANGED ext

\* schedule(), `if STOPPED.load() { return }`: the task, and with it the sender of
\* the result channel, is dropped.
schedule_load_stopped ==
    /\ JsTopIn(OpKinds, "load_stopped")
    /\ IF STOPPED
       THEN /\ result' = [result EXCEPT ![Top(js).id] = "disconnected"]
            /\ js' = SetTopPc(js, AfterSchedule(Top(js).k))
       ELSE /\ js' = SetTopPc(js, "push")
            /\ UNCHANGED result
    /\ UNCHANGED <<shared, pending, channel, cb, gtk, app_hold_guard, loop_running,
                   enqueued, started, next_op, next_cb, signals>>
    /\ UNCHANGED ext

\* schedule(), `QUEUE.push(Box::new(task))`.
schedule_push ==
    /\ JsTopIn(OpKinds, "push")
    /\ QUEUE' = Queue_push(QUEUE, [id |-> Top(js).id, kind |-> Top(js).k])
    /\ enqueued' = Append(enqueued, Top(js).id)
    /\ js' = SetTopPc(js, "cas")
    /\ UNCHANGED <<DISPATCH_SCHEDULED, STOPPED, JS_WAIT_DEPTH, idle_sources, pending,
                   channel, result, cb, gtk, app_hold_guard, loop_running, started,
                   next_op, next_cb, signals>>
    /\ UNCHANGED ext

\* schedule(), `if DISPATCH_SCHEDULED.compare_exchange(false, true) { idle_add_once }`.
schedule_cas ==
    /\ JsTopIn(OpKinds, "cas")
    /\ IF DISPATCH_SCHEDULED = FALSE
       THEN /\ DISPATCH_SCHEDULED' = TRUE
            /\ idle_sources' = idle_sources + 1
       ELSE UNCHANGED <<DISPATCH_SCHEDULED, idle_sources>>
    /\ js' = SetTopPc(js, AfterSchedule(Top(js).k))
    /\ UNCHANGED <<QUEUE, STOPPED, JS_WAIT_DEPTH, pending, channel, result, cb, gtk,
                   app_hold_guard, loop_running, enqueued, started, next_op, next_cb,
                   signals>>
    /\ UNCHANGED ext

\* Variant: the wait loop never touches the synchronous queue.
process_pending_skipped ==
    /\ JsTopIn(CallKinds, "process_pending")
    /\ js' = SetTopPc(js, "try_recv")
    /\ UNCHANGED <<shared, pending, channel, result, cb, gtk, app_hold_guard,
                   loop_running, enqueued, started, next_op, next_cb, signals>>
    /\ UNCHANGED ext

\* Variant: the wait loop takes the callback pushed last.
process_pending_newest ==
    /\ JsTopIn(CallKinds, "process_pending")
    /\ IF pending # <<>>
       THEN LET c == pending[Len(pending)] IN
            /\ pending' = SubSeq(pending, 1, Len(pending) - 1)
            /\ cb' = [cb EXCEPT ![c].st = "running",
                                ![c].popped = PoppedCount(cb) + 1]
            /\ js' = Append(js, JsFrame("cb", "run", c))
       ELSE /\ js' = SetTopPc(js, "try_recv")
            /\ UNCHANGED <<pending, cb>>
    /\ UNCHANGED <<shared, channel, result, gtk, app_hold_guard, loop_running,
                   enqueued, started, next_op, next_cb, signals>>
    /\ UNCHANGED ext

\* wait_for_result -> js_dispatch::process_pending: pop one pending callback and
\* execute it, or leave the `while let` when the queue is empty.
process_pending ==
    /\ JsTopIn(CallKinds, "process_pending")
    /\ IF pending # <<>>
       THEN LET c == DispatchQueue_front(pending) IN
            /\ pending' = DispatchQueue_pop(pending)
            /\ cb' = [cb EXCEPT ![c].st = "running",
                                ![c].popped = PoppedCount(cb) + 1]
            /\ js' = Append(js, JsFrame("cb", "run", c))
       ELSE /\ js' = SetTopPc(js, "try_recv")
            /\ UNCHANGED <<pending, cb>>
    /\ UNCHANGED <<shared, channel, result, gtk, app_hold_guard, loop_running,
                   enqueued, started, next_op, next_cb, signals>>
    /\ UNCHANGED ext

\* Variant: the Disconnected arm returns without exit_js_wait().
wait_for_result_try_recv_no_exit_on_error ==
    /\ JsTopIn(CallKinds, "try_recv")
    /\ LET r == result[Top(js).id] IN
       \/ /\ r = "ok"
          /\ result' = [result EXCEPT ![Top(js).id] = "taken"]
          /\ JS_WAIT_DEPTH' = exit_js_wait(JS_WAIT_DEPTH)
          /\ js' = Pop(js)
       \/ /\ r = "empty"
          /\ js' = SetTopPc(js, "process_pending")
          /\ UNCHANGED <<result, JS_WAIT_DEPTH>>
       \/ /\ r = "disconnected"
          /\ result' = [result EXCEPT ![Top(js).id] = "failed"]
          /\ js' = Pop(js)
          /\ UNCHANGED JS_WAIT_DEPTH
    /\ UNCHANGED <<QUEUE, DISPATCH_SCHEDULED, STOPPED, idle_sources, pending, channel,
                   cb, gtk, app_hold_guard, loop_running, enqueued, started, next_op,
                   next_cb, signals>>
    /\ UNCHANGED ext

\* wait_for_result, `match rx.try_recv()`.
wait_for_result_try_recv ==
    /\ JsTopIn(CallKinds, "try_recv")
    /\ LET r == result[Top(js).id] IN
       \/ /\ r = "ok"
          /\ result' = [result EXCEPT ![Top(js).id] = "taken"]
          /\ JS_WAIT_DEPTH' = exit_js_wait(JS_WAIT_DEPTH)
          /\ js' = Pop(js)
       \/ /\ r = "empty"
          /\ js' = SetTopPc(js, "process_pending")
          /\ UNCHANGED <<result, JS_WAIT_DEPTH>>
       \/ /\ r = "disconnected"
          /\ result' = [result EXCEPT ![Top(js).id] = "failed"]
          /\ JS_WAIT_DEPTH' = exit_js_wait(JS_WAIT_DEPTH)
          /\ js' = Pop(js)
    /\ UNCHANGED <<QUEUE, DISPATCH_SCHEDULED, STOPPED, idle_sources, pending, channel,
                   cb, gtk, app_hold_guard, loop_running, enqueued, started, next_op,
                   next_cb, signals>>
    /\ UNCHANGED ext

\* stop(), `rx.recv()`: blocks until the stop task has sent or the sender is gone.
stop_recv ==
    /\ JsTopIs("stop", "recv")
    /\ LET r == result[Top(js).id] IN
       \/ /\ r = "ok"
          /\ result' = [result EXCEPT ![Top(js).id] = "taken"]
       \/ /\ r = "disconnected"
          /\ result' = [result EXCEPT ![Top(js).id] = "stop_failed"]
    /\ js' = Pop(js)
    /\ UNCHANGED <<shared, pending, channel, cb, gtk, app_hold_guard, loop_running,
                   enqueued, started, next_op, next_cb, signals>>
    /\ UNCHANGED ext

\* Variant: the callback returns and nothing is sent on its channel.
callback_return_without_send ==
    /\ JsTopIs("cb", "run")
    /\ js' = Pop(js)
    /\ UNCHANGED <<shared, pending, channel, result, cb, gtk, app_hold_guard, loop_running,
                   enqueued, started, next_op, next_cb, signals>>
    /\ UNCHANGED ext

\* The closure whose round trip is followed in detail: try_from_callback has
\* built it and native code has not invoked it yet, or it waits for the result
\* of callback c.
TrampolineBuilt == conv.phase = "trampoline" /\ conv.pc = "built"
TrampolineWaiting(c) == conv.phase = "trampoline" /\ conv.pc = "waiting" /\ conv.cbid = c

\* execute_callback returns and its result is sent on the callback's channel
\* (process_pending and the channel closure both do `tx.send(result)`): the
\* scripting function returned a value or threw.
callback_return ==
    /\ JsTopIs("cb", "run")
    /\ cb' = [cb EXCEPT ![Top(js).id].st = "sent"]
    /\ js' = Pop(js)
    /\ IF TrampolineWaiting(Top(js).id)
       THEN \E outcome \in {o \in JsOutcomes : o.k # "disconnect"} :
              conv' = [conv EXCEPT !.outcome = outcome]
       ELSE UNCHANGED conv
    /\ UNCHANGED <<shared, pending, channel, result, gtk, app_hold_guard, loop_running,
                   enqueued, started, next_op, next_cb, signals>>
    /\ UNCHANGED <<registry, ffi_source>>

\* The event loop of the scripting runtime runs a closure sent by send_via_channel.
channel_run ==
    /\ js = <<>>
    /\ channel # <<>>
    /\ channel' = Tail(channel)
    /\ cb' = [cb EXCEPT ![Head(channel)].st = "running"]
    /\ js' = <<JsFrame("cb", "run", Head(channel))>>
    /\ UNCHANGED <<shared, pending, result, gtk, app_hold_guard, loop_running,
                   enqueued, started, next_op, next_cb, signals>>
    /\ UNCHANGED ext

\* The scripting runtime leaves its event loop: the closures send_via_channel
\* handed to it are dropped without being run, and with each the sender of its
\* callback's result channel; the scripting thread runs nothing afterwards.
runtime_exit ==
    /\ js = <<>>
    /\ channel # <<>>
    /\ js' = <<JsFrame("exit", "gone", 0)>>
    /\ channel' = <<>>
    /\ cb' = [c \in CbIds |->
                IF \E n \in 1..Len(channel) : channel[n] = c
                THEN [cb[c] EXCEPT !.st = "disconnected"] ELSE cb[c]]
    /\ UNCHANGED <<shared, pending, result, gtk, app_hold_guard, loop_running,
                   enqueued, started, next_op, next_cb, signals>>
    /\ UNCHANGED ext

\* Steps the scripting code chooses to take.
JsStart == call \/ batch_call \/ stop

\* Steps the scripting thread takes once it is inside an operation or has work.
JsStep ==
    \/ schedule_load_stopped
    \/ schedule_push
    \/ schedule_cas
    \/ process_pending
    \/ wait_for_result_try_recv
    \/ stop_recv
    \/ callback_return
    \/ channel_run

\* =========================================================================
\* Loop thread
\* =========================================================================

\* A callback the loop thread is about to dispatch: who fired it (a task, with the
\* task's id as owner, or the main loop), which path it took, the call whose wait
\* loop was innermost when it was queued, and the state of its result channel.
\* For the synchronous queue it also records the callback's place in the order of
\* pushes, how many callbacks were ahead of it in the queue at that moment, and
\* its place in the order of pops (0: not yet).
NewCb(origin, owner, args) ==
    [origin |-> origin, owner |-> owner, path |-> "none", waiter |-> 0, st |-> "fired",
     pushed |-> 0, ahead |-> 0, popped |-> 0, args |-> args]

\* Variant: dispatch_batch without the leading `DISPATCH_SCHEDULED.store(false)`.
dispatch_batch_begin_keeps_flag ==
    /\ gtk = <<>>
    /\ loop_running
    /\ idle_sources > 0
    /\ idle_sources' = idle_sources - 1
    /\ gtk' = <<GtkFrame("dispatch_batch", "pop", 0, FALSE)>>
    /\ UNCHANGED <<QUEUE, DISPATCH_SCHEDULED, STOPPED, JS_WAIT_DEPTH, pending, channel,
                   result, cb, js, app_hold_guard, loop_running, enqueued, started,
                   next_op, next_cb, signals>>
    /\ UNCHANGED ext

\* The main loop dispatches a pending idle source: dispatch_batch starts with
\* `DISPATCH_SCHEDULED.store(false)`.
dispatch_batch_begin ==
    /\ gtk = <<>>
    /\ loop_running
    /\ idle_sources > 0
    /\ idle_sources' = idle_sources - 1
    /\ DISPATCH_SCHEDULED' = FALSE
    /\ gtk' = <<GtkFrame("dispatch_batch", "pop", 0, FALSE)>>
    /\ UNCHANGED <<QUEUE, STOPPED, JS_WAIT_DEPTH, pending, channel, result, cb, js,
                   app_hold_guard, loop_running, enqueued, started, next_op, next_cb,
                   signals>>
    /\ UNCHANGED ext

\* dispatch_batch, `while let Some(task) = QUEUE.pop() { task() }`: one iteration.
dispatch_batch_pop ==
    /\ GtkTopIs("dispatch_batch", "pop")
    /\ IF ~Queue_is_empty(QUEUE)
       THEN LET t == Queue_front(QUEUE) IN
            /\ QUEUE' = Queue_pop(QUEUE)
            /\ started' = Append(started, t.id)
            /\ gtk' = Append(gtk, GtkFrame(t.kind, "run", t.id, FALSE))
       ELSE /\ gtk' = SetTopPc(gtk, "rearm")
            /\ UNCHANGED <<QUEUE, started>>
    /\ UNCHANGED <<DISPATCH_SCHEDULED, STOPPED, JS_WAIT_DEPTH, idle_sources, pending,
                   channel, result, cb, js, app_hold_guard, loop_running, enqueued,
                   next_op, next_cb, signals>>
    /\ UNCHANGED ext

\* `if !QUEUE.is_empty() && DISPATCH_SCHEDULED.compare_exchange(false, true).is_ok()
\*  { idle_add_once(dispatch_batch) }`, the tail of both drain routines.
Rearm ==
    IF ~Queue_is_empty(QUEUE) /\ DISPATCH_SCHEDULED = FALSE
    THEN /\ DISPATCH_SCHEDULED' = TRUE
         /\ idle_sources' = idle_sources + 1
    ELSE UNCHANGED <<DISPATCH_SCHEDULED, idle_sources>>

dispatch_batch_rearm ==
    /\ GtkTopIs("dispatch_batch", "rearm")
    /\ Rearm
    /\ gtk' = Pop(gtk)
    /\ UNCHANGED <<QUEUE, STOPPED, JS_WAIT_DEPTH, pending, channel, result, cb, js,
                   app_hold_guard, loop_running, enqueued, started, next_op, next_cb,
                   signals>>
    /\ UNCHANGED ext

\* Object arguments a closure is invoked with, at most.
MaxCbArgs == 2

\* The trampoline closure converts the arguments it is called with before it
\* dispatches (convert_glib_args -> Value::from_glib_value): every object, boxed
\* or variant argument that is not null is registered with ObjectId::new, in
\* argument order; addrs are the pointers of those arguments.
convert_glib_args(addrs) == register_each(addrs)

\* The arguments a closure converts before it dispatches: the standard
\* closure, drawFunc and compareDataFunc convert all of theirs, asyncReady its
\* source and its result, destroy and sourceFunc pass `vec![]`.
CallbackArgs ==
    IF TrampolineBuilt /\ conv.trampoline \in {"destroy", "sourceFunc"} THEN 0 ELSE MaxCbArgs

\* The closure followed in detail is the one invoked.
trampoline_invoked(c) ==
    IF TrampolineBuilt THEN [conv EXCEPT !.pc = "waiting", !.cbid = c] ELSE conv

\* A call task: the native function called by handle_call emits a signal whose
\* closure was built by try_from_callback; the closure runs
\* invoke_and_wait_for_js_result.
task_fire_callback ==
    /\ gtk # <<>>
    /\ Top(gtk).k \in CallKinds
    /\ Top(gtk).pc = "run"
    /\ next_cb <= MaxCallbacks
    /\ \E addrs \in PointerLists(CallbackArgs) :
         /\ convert_glib_args(addrs)
         /\ cb' = [cb EXCEPT ![next_cb] = NewCb("task", Top(gtk).id, NewIds(addrs))]
    /\ gtk' = Append(gtk, GtkFrame("trampoline", "is_js_waiting", next_cb, FALSE))
    /\ next_cb' = next_cb + 1
    /\ conv' = trampoline_invoked(next_cb)
    /\ UNCHANGED <<shared, pending, channel, result, js, app_hold_guard, loop_running,
                   enqueued, started, next_op, signals>>
    /\ UNCHANGED ffi_source

\* A call task ends: `let _ = tx.send(handle_call(..))` / `tx.send(result)`.
task_finish ==
    /\ gtk # <<>>
    /\ Top(gtk).k \in CallKinds
    /\ Top(gtk).pc = "run"
    /\ result' = [result EXCEPT ![Top(gtk).id] = "ok"]
    /\ gtk' = Pop(gtk)
    /\ UNCHANGED <<shared, pending, channel, cb, js, app_hold_guard, loop_running,
                   enqueued, started, next_op, next_cb, signals>>
    /\ UNCHANGED ext

\* The task of stop(): mark_stopped(), app_hold_guard.take(), tx.send(()).
stop_task ==
    /\ GtkTopIs("stop", "run")
    /\ STOPPED' = TRUE
    /\ app_hold_guard' = FALSE
    /\ result' = [result EXCEPT ![Top(gtk).id] = "ok"]
    /\ gtk' = Pop(gtk)
    /\ UNCHANGED <<QUEUE, DISPATCH_SCHEDULED, JS_WAIT_DEPTH, idle_sources, pending,
                   channel, cb, js, loop_running, enqueued, started, next_op, next_cb,
                   signals>>
    /\ UNCHANGED ext

\* The main loop emits a signal on its own (user input, a timer): the connected
\* closure runs invoke_and_wait_for_js_result outside any task.
signal_fire ==
    /\ gtk = <<>>
    /\ loop_running
    /\ signals < MaxSignals
    /\ next_cb <= MaxCallbacks
    /\ \E addrs \in PointerLists(CallbackArgs) :
         /\ convert_glib_args(addrs)
         /\ cb' = [cb EXCEPT ![next_cb] = NewCb("signal", 0, NewIds(addrs))]
    /\ gtk' = <<GtkFrame("trampoline", "is_js_waiting", next_cb, FALSE)>>
    /\ next_cb' = next_cb + 1
    /\ signals' = signals + 1
    /\ conv' = trampoline_invoked(next_cb)
    /\ UNCHANGED <<shared, pending, channel, result, js, app_hold_guard, loop_running,
                   enqueued, started, next_op>>
    /\ UNCHANGED ffi_source

\* invoke_and_wait_for_js_result, `if gtk_dispatch::is_js_waiting()`.
invoke_is_js_waiting ==
    /\ GtkTopIs("trampoline", "is_js_waiting")
    /\ gtk' = SetTopPc(gtk, IF is_js_waiting(JS_WAIT_DEPTH) THEN "queue" ELSE "send_via_channel")
    /\ UNCHANGED <<shared, pending, channel, result, cb, js, app_hold_guard, loop_running,
                   enqueued, started, next_op, next_cb, signals>>
    /\ UNCHANGED ext

\* js_dispatch::queue: push the callback on the synchronous queue.
queue ==
    /\ GtkTopIs("trampoline", "queue")
    /\ pending' = DispatchQueue_push(pending, Top(gtk).id)
    /\ cb' = [cb EXCEPT ![Top(gtk).id].path = "sync",
                        ![Top(gtk).id].waiter = InnermostCall,
                        ![Top(gtk).id].st = "queued",
                        ![Top(gtk).id].pushed = PushedCount(cb) + 1,
                        ![Top(gtk).id].ahead = Len(pending)]
    /\ gtk' = SetTopPc(gtk, "try_recv")
    /\ UNCHANGED <<shared, channel, result, js, app_hold_guard, loop_running,
                   enqueued, started, next_op, next_cb, signals>>
    /\ UNCHANGED ext

\* js_dispatch::send_via_channel: hand the closure to the Neon channel.
send_via_channel ==
    /\ GtkTopIs("trampoline", "send_via_channel")
    /\ channel' = Append(channel, Top(gtk).id)
    /\ cb' = [cb EXCEPT ![Top(gtk).id].path = "chan",
                        ![Top(gtk).id].st = "queued"]
    /\ gtk' = SetTopPc(gtk, "try_recv")
    /\ UNCHANGED <<shared, pending, result, js, app_hold_guard, loop_running,
                   enqueued, started, next_op, next_cb, signals>>
    /\ UNCHANGED ext

\* Variant: the Empty arm only yields; the loop thread runs no task while it waits.
wait_for_js_result_try_recv_no_dispatch ==
    /\ GtkTopIs("trampoline", "try_recv")
    /\ IF cb[Top(gtk).id].st = "sent"
       THEN /\ cb' = [cb EXCEPT ![Top(gtk).id].st = "taken"]
            /\ gtk' = Pop(gtk)
       ELSE IF cb[Top(gtk).id].st = "disconnected"
       THEN /\ gtk' = SetTopPc(gtk, "panicked")
            /\ UNCHANGED cb
       ELSE UNCHANGED <<gtk, cb>>
    /\ UNCHANGED <<shared, pending, channel, result, js, app_hold_guard, loop_running,
                   enqueued, started, next_op, next_cb, signals>>
    /\ UNCHANGED ext

\* wait_for_js_result, `match rx.try_recv()`: Ok hands on_result(result) to the
\* native caller, Empty calls gtk_dispatch::dispatch_pending() and yields,
\* Disconnected is panic!(): the loop thread stops where it is, its frames stay
\* and nothing runs on it any more.
wait_for_js_result_try_recv ==
    /\ GtkTopIs("trampoline", "try_recv")
    /\ IF cb[Top(gtk).id].st = "sent"
       THEN /\ cb' = [cb EXCEPT ![Top(gtk).id].st = "taken"]
            /\ gtk' = Pop(gtk)
            /\ conv' = IF TrampolineWaiting(Top(gtk).id)
                       THEN [conv EXCEPT
                               !.pc = "returned",
                               !.result = wait_for_js_result(conv.trampoline,
                                                             conv.return_type, conv.outcome)]
                       ELSE conv
       ELSE IF cb[Top(gtk).id].st = "disconnected"
       THEN /\ gtk' = SetTopPc(gtk, "panicked")
            /\ conv' = IF TrampolineWaiting(Top(gtk).id)
                       THEN [conv EXCEPT
                               !.pc = "panicked",
                               !.outcome = [k |-> "disconnect"],
                               !.result = wait_for_js_result(conv.trampoline,
                                                             conv.return_type,
                                                             [k |-> "disconnect"])]
                       ELSE conv
            /\ UNCHANGED cb
       ELSE /\ gtk' = Append(gtk, GtkFrame("dispatch_pending", "pop", 0, FALSE))
            /\ UNCHANGED <<cb, conv>>
    /\ UNCHANGED <<shared, pending, channel, result, js, app_hold_guard, loop_running,
                   enqueued, started, next_op, next_cb, signals>>
    /\ UNCHANGED <<registry, ffi_source>>

\* Variant: the re-entrant drain takes the newest task instead of the oldest.
dispatch_pending_pop_newest ==
    /\ GtkTopIs("dispatch_pending", "pop")
    /\ IF ~Queue_is_empty(QUEUE)
       THEN LET t == QUEUE[Len(QUEUE)] IN
            /\ QUEUE' = SubSeq(QUEUE, 1, Len(QUEUE) - 1)
            /\ started' = Append(started, t.id)
            /\ gtk' = Append([gtk EXCEPT ![Len(gtk)].flag = TRUE],
                             GtkFrame(t.kind, "run", t.id, FALSE))
       ELSE /\ gtk' = IF Top(gtk).flag THEN SetTopPc(gtk, "store") ELSE Pop(gtk)
            /\ UNCHANGED <<QUEUE, started>>
    /\ UNCHANGED <<DISPATCH_SCHEDULED, STOPPED, JS_WAIT_DEPTH, idle_sources, pending,
                   channel, result, cb, js, app_hold_guard, loop_running, enqueued,
                   next_op, next_cb, signals>>
    /\ UNCHANGED ext

\* Variant: the re-entrant drain runs the front task and leaves it in the queue.
dispatch_pending_pop_keeping_task ==
    /\ GtkTopIs("dispatch_pending", "pop")
    /\ IF ~Queue_is_empty(QUEUE)
       THEN LET t == Queue_front(QUEUE) IN
            /\ Len(started) < 2 * MaxOps
            /\ started' = Append(started, t.id)
            /\ gtk' = Append([gtk EXCEPT ![Len(gtk)].flag = TRUE],
                             GtkFrame(t.kind, "run", t.id, FALSE))
       ELSE /\ gtk' = IF Top(gtk).flag THEN SetTopPc(gtk, "store") ELSE Pop(gtk)
            /\ UNCHANGED started
    /\ UNCHANGED <<QUEUE, DISPATCH_SCHEDULED, STOPPED, JS_WAIT_DEPTH, idle_sources, pending,
                   channel, result, cb, js, app_hold_guard, loop_running, enqueued,
                   next_op, next_cb, signals>>
    /\ UNCHANGED ext

\* dispatch_pending, `while let Some(task) = QUEUE.pop() { task(); dispatched = true }`:
\* one iteration; with the queue empty, `if dispatched` decides what follows.
dispatch_pending_pop ==
    /\ GtkTopIs("dispatch_pending", "pop")
    /\ IF ~Queue_is_empty(QUEUE)
       THEN LET t == Queue_front(QUEUE) IN
            /\ QUEUE' = Queue_pop(QUEUE)
            /\ started' = Append(started, t.id)
            /\ gtk' = Append([gtk EXCEPT ![Len(gtk)].flag = TRUE],
                             GtkFrame(t.kind, "run", t.id, FALSE))
       ELSE /\ gtk' = IF Top(gtk).flag THEN SetTopPc(gtk, "store") ELSE Pop(gtk)
            /\ UNCHANGED <<QUEUE, started>>
    /\ UNCHANGED <<DISPATCH_SCHEDULED, STOPPED, JS_WAIT_DEPTH, idle_sources, pending,
                   channel, result, cb, js, app_hold_guard, loop_running, enqueued,
                   next_op, next_cb, signals>>
    /\ UNCHANGED ext

\* dispatch_pending, `DISPATCH_SCHEDULED.store(false)` after a non-empty drain.
dispatch_pending_store ==
    /\ GtkTopIs("dispatch_pending", "store")
    /\ DISPATCH_SCHEDULED' = FALSE
    /\ gtk' = SetTopPc(gtk, "rearm")
    /\ UNCHANGED <<QUEUE, STOPPED, JS_WAIT_DEPTH, idle_sources, pending, channel, result,
                   cb, js, app_hold_guard, loop_running, enqueued, started, next_op,
                   next_cb, signals>>
    /\ UNCHANGED ext

dispatch_pending_rearm ==
    /\ GtkTopIs("dispatch_pending", "rearm")
    /\ Rearm
    /\ gtk' = Pop(gtk)
    /\ UNCHANGED <<QUEUE, STOPPED, JS_WAIT_DEPTH, pending, channel, result, cb, js,
                   app_hold_guard, loop_running, enqueued, started, next_op, next_cb,
                   signals>>
    /\ UNCHANGED ext

\* app.run_with_args returns once the hold guard is released and the loop thread
\* is back in the main loop; the thread ends.
main_loop_exit ==
    /\ gtk = <<>>
    /\ loop_running
    /\ ~app_hold_guard
    /\ loop_running' = FALSE
    /\ UNCHANGED <<shared, pending, channel, result, cb, js, gtk, app_hold_guard,
                   enqueued, started, next_op, next_cb, signals>>
    /\ UNCHANGED ext

\* Steps of the environment on the loop thread.
GtkFire == task_fire_callback \/ signal_fire

\* Steps the loop thread takes by itself.
GtkStep ==
    \/ dispatch_batch_begin
    \/ dispatch_batch_pop
    \/ dispatch_batch_rearm
    \/ task_finish
    \/ stop_task
    \/ invoke_is_js_waiting
    \/ queue
    \/ send_via_channel
    \/ wait_for_js_result_try_recv
    \/ dispatch_pending_pop
    \/ dispatch_pending_store
    \/ dispatch_pending_rearm
    \/ main_loop_exit

\* =========================================================================
\* Specifications
\* =========================================================================
Next == JsStart \/ JsStep \/ runtime_exit \/ GtkFire \/ GtkStep

Spec == Init /\ [][Next]_vars

\* Fair scheduling of the two threads: each thread keeps taking the steps of the
\* code it is in.  What the scripting code starts and what the environment fires
\* is not forced.
\* The liveness properties are checked on a smaller environment: one operation
\* fewer, and call() standing for batchCall(), whose protocol is the same.
LiveMaxOps == MaxOps - 1

LiveBound == next_op <= LiveMaxOps + 1

LiveNext ==
    \/ (call /\ LiveBound')
    \/ (stop /\ LiveBound')
    \/ JsStep
    \/ GtkFire
    \/ GtkStep

LiveSpec == Init /\ [][LiveNext]_vars /\ WF_vars(JsStep) /\ WF_vars(GtkStep)

\* What the steps of handle_call after the conversions can meet: the library
\* loads or not, the symbol is found or not (call.rs 152-160), the result type
\* is one cif.call is made for or not (162-213).
Lookups == {"found", "no_library", "no_symbol"}

\* Items of a list of objects a native function returns.
MaxListItems == 2

\* handle_call, `match result_type` (call.rs 162-214): the types for which
\* cif.call is made, Type::Null (`=> cif::Value::Void`, no call is made) and the
\* types of the `_ => bail!("Unsupported return type")` arm.
ResultTypes == {"callable", "null", "unsupported"}

\* The argument types that carry an identity: gobject, boxed, array of objects
\* (one item), ref (a caller-allocated out-parameter).
ArgTypes == {"gobject", "boxed", "array", "ref"}

\* TryFrom<Arg> for cif::Value on an argument of type ty holding identity o
\* (0: null, or an array without items).  The GObject and Boxed arms and
\* try_from_ref use `id.as_ptr().ok_or_else(..)?`; try_from_array uses
\* `id.as_ptr().unwrap_or(std::ptr::null_mut())`.
Value_try_from(map, ty, o) ==
    LET r == ObjectId_as_ptr(map, o) IN
    IF o = 0 THEN [t |-> "ptr", ptr |-> 0]
    ELSE IF r.t = "none"
         THEN IF ty = "array" THEN [t |-> "ptr", ptr |-> 0] ELSE [t |-> "error"]
    ELSE [t |-> "ptr", ptr |-> r.ptr]

\* =========================================================================
\* Object registry: operations that carry identities
\* =========================================================================

\* call() with one argument of gobject type holding identity o (0: the argument
\* is null): mpsc::channel, enter_js_wait(), schedule(handle_call).
call_object ==
    \E o \in IssuedIds \cup {0}, ty \in ArgTypes :
        /\ JsCanStart
        /\ JS_WAIT_DEPTH' = enter_js_wait(JS_WAIT_DEPTH)
        /\ result' = [result EXCEPT ![next_op] = "empty"]
        /\ op_obj' = [op_obj EXCEPT ![next_op] = o]
        /\ op_arg' = [op_arg EXCEPT ![next_op] = ty]
        /\ js' = Append(js, JsFrame("call", "load_stopped", next_op))
        /\ next_op' = next_op + 1
        /\ UNCHANGED <<QUEUE, DISPATCH_SCHEDULED, STOPPED, idle_sources, pending, channel,
                       cb, gtk, app_hold_guard, loop_running, enqueued, started, next_cb,
                       signals>>
        /\ UNCHANGED <<object_map, next_object_id, issued, finalized, op_val, native_ptrs,
                       accessors, ffi_source, conv>>

\* getObjectId(o): mpsc::channel, schedule(id.try_as_ptr()); no enter_js_wait().
get_object_id ==
    \E o \in IssuedIds :
        /\ JsCanStart
        /\ result' = [result EXCEPT ![next_op] = "empty"]
        /\ op_obj' = [op_obj EXCEPT ![next_op] = o]
        /\ op_arg' = op_arg
        /\ js' = Append(js, JsFrame("getObjectId", "load_stopped", next_op))
        /\ next_op' = next_op + 1
        /\ UNCHANGED <<shared, pending, channel, cb, gtk, app_hold_guard, loop_running,
                       enqueued, started, next_cb, signals>>
        /\ UNCHANGED <<object_map, next_object_id, issued, finalized, op_val, native_ptrs,
                       accessors, ffi_source, conv>>

\* Variant: the finalizer removes the entry itself, on the scripting thread.
finalize_removes_directly ==
    \E o \in Wrappers :
        /\ JsCanStart
        /\ finalized' = finalized \cup {o}
        /\ object_map' = object_map_remove(object_map, o)
        /\ accessors' = accessors \cup {"js"}
        /\ op_obj' = [op_obj EXCEPT ![next_op] = o]
        /\ op_arg' = op_arg
        /\ result' = [result EXCEPT ![next_op] = "ok"]
        /\ op_val' = [op_val EXCEPT ![next_op] = [t |-> "finalizer"]]
        /\ next_op' = next_op + 1
        /\ UNCHANGED <<shared, pending, channel, cb, js, gtk, app_hold_guard, loop_running,
                       enqueued, started, next_cb, signals>>
        /\ UNCHANGED <<next_object_id, issued, native_ptrs, ffi_source, conv>>

\* Finalize for ObjectId, run by the host runtime on the scripting thread when the
\* wrapper of o is collected: gtk_dispatch::schedule(remove o); nothing is awaited.
finalize ==
    \E o \in Wrappers :
        /\ JsCanStart
        /\ finalized' = finalized \cup {o}
        /\ op_obj' = [op_obj EXCEPT ![next_op] = o]
        /\ op_arg' = op_arg
        /\ result' = [result EXCEPT ![next_op] = "empty"]
        /\ op_val' = [op_val EXCEPT ![next_op] = [t |-> "finalizer"]]
        /\ js' = Append(js, JsFrame("finalize", "load_stopped", next_op))
        /\ next_op' = next_op + 1
        /\ UNCHANGED <<shared, pending, channel, cb, gtk, app_hold_guard, loop_running,
                       enqueued, started, next_cb, signals>>
        /\ UNCHANGED <<object_map, next_object_id, issued, native_ptrs,
                       accessors, ffi_source, conv>>

\* The finalizer returns once schedule() has returned.
finalize_return ==
    /\ JsTopIs("finalize", "return")
    /\ js' = Pop(js)
    /\ UNCHANGED <<shared, pending, channel, result, cb, gtk, app_hold_guard,
                   loop_running, enqueued, started, next_op, next_cb, signals>>
    /\ UNCHANGED ext

\* `rx.recv()` of getObjectId, read, alloc and write: the scripting thread blocks
\* until the task has sent or the sender is gone; nothing else runs on it.
BlockingRecv(k) ==
    /\ JsTopIs(k, "recv")
    /\ LET r == result[Top(js).id] IN
       \/ /\ r = "ok"
          /\ result' = [result EXCEPT ![Top(js).id] = "taken"]
       \/ /\ r = "disconnected"
          /\ result' = [result EXCEPT ![Top(js).id] = "failed"]
    /\ js' = Pop(js)
    /\ UNCHANGED <<shared, pending, channel, cb, gtk, app_hold_guard, loop_running,
                   enqueued, started, next_op, next_cb, signals>>
    /\ UNCHANGED ext

get_object_id_recv == BlockingRecv("getObjectId")

read_recv == BlockingRecv("read")

alloc_recv == BlockingRecv("alloc")

write_recv == BlockingRecv("write")

\* The task of call(): handle_call converts the argument (TryFrom<Arg> for Value),
\* calls the native function with the pointer, and converts the result; a
\* returned object is registered with ObjectId::new.  A failed conversion, a
\* library or symbol that is not found and an unsupported result type return
\* the error before the native call; a result that cannot be converted returns
\* it after, also when an object read back before it has been registered; a
\* list or array result registers each of its objects.  The task owns its
\* arguments: they are dropped when it returns.
handle_call_object ==
    /\ GtkTopIs("call", "run")
    /\ LET i == Top(gtk).id
           o == op_obj[i]
           v == Value_try_from(object_map, op_arg[i], o)
       IN IF v.t = "error"
          THEN /\ op_val' = [op_val EXCEPT ![i] = [t |-> "error"]]
               /\ UNCHANGED <<object_map, next_object_id, issued, native_ptrs>>
          ELSE \E lookup \in Lookups, result_type \in ResultTypes :
               IF lookup # "found" \/ result_type = "unsupported"
               THEN /\ op_val' = [op_val EXCEPT ![i] = [t |-> "error"]]
                    /\ UNCHANGED <<object_map, next_object_id, issued, native_ptrs>>
               ELSE IF result_type = "null"
               THEN /\ op_val' = [op_val EXCEPT ![i] = [t |-> "value"]]
                    /\ UNCHANGED <<object_map, next_object_id, issued, native_ptrs>>
               ELSE
               /\ native_ptrs' = native_ptrs \cup {<<o, v.ptr>>}
               /\ \/ /\ op_val' = [op_val EXCEPT ![i] = [t |-> "value"]]
                     /\ UNCHANGED <<object_map, next_object_id, issued>>
                  \/ /\ op_val' = [op_val EXCEPT ![i] = [t |-> "error"]]
                     /\ UNCHANGED <<object_map, next_object_id, issued>>
                  \/ /\ next_object_id <= MaxObjects
                     /\ \E a \in Addrs :
                          LET n == ObjectId_new(object_map, next_object_id, a) IN
                          /\ object_map' = n.map
                          /\ next_object_id' = n.next
                          /\ issued' = Append(issued, n.id)
                          /\ op_val' = [op_val EXCEPT ![i] = [t |-> "object", id |-> n.id, addr |-> a]]
                  \/ /\ next_object_id <= MaxObjects
                     /\ \E a \in Addrs :
                          LET n == ObjectId_new(object_map, next_object_id, a) IN
                          /\ object_map' = n.map
                          /\ next_object_id' = n.next
                          /\ issued' = Append(issued, n.id)
                          /\ op_val' = [op_val EXCEPT ![i] = [t |-> "error"]]
                  \/ /\ next_object_id + MaxListItems <= MaxObjects + 1
                     /\ \E addrs \in [1..MaxListItems -> Addrs] :
                          LET r == ObjectId_new_each(object_map, next_object_id, addrs) IN
                          /\ object_map' = r.map
                          /\ next_object_id' = r.next
                          /\ issued' = issued \o r.ids
                          /\ op_val' = [op_val EXCEPT ![i] = [t |-> "array", ids |-> r.ids,
                                                              addrs |-> addrs]]
    /\ result' = [result EXCEPT ![Top(gtk).id] = "ok"]
    /\ accessors' = accessors \cup {"loop"}
    /\ gtk' = Pop(gtk)
    /\ UNCHANGED <<shared, pending, channel, cb, js, app_hold_guard, loop_running,
                   enqueued, started, next_op, next_cb, signals>>
    /\ op_arg' = [op_arg EXCEPT ![Top(gtk).id] = "gobject"]
    /\ UNCHANGED <<finalized, op_obj, ffi_source, conv>>

\* The task of getObjectId(): `tx.send(id.try_as_ptr())`.
get_object_id_task ==
    /\ GtkTopIs("getObjectId", "run")
    /\ op_val' = [op_val EXCEPT ![Top(gtk).id] =
                     ObjectId_as_ptr(object_map, op_obj[Top(gtk).id])]
    /\ result' = [result EXCEPT ![Top(gtk).id] = "ok"]
    /\ accessors' = accessors \cup {"loop"}
    /\ gtk' = Pop(gtk)
    /\ UNCHANGED <<shared, pending, channel, cb, js, app_hold_guard, loop_running,
                   enqueued, started, next_op, next_cb, signals>>
    /\ UNCHANGED <<object_map, next_object_id, issued, finalized, op_obj, op_arg, native_ptrs,
                   ffi_source, conv>>

\* The task scheduled by the finalizer: `state.object_map.remove(&self.0)`.
finalize_task ==
    /\ GtkTopIs("finalize", "run")
    /\ object_map' = object_map_remove(object_map, op_obj[Top(gtk).id])
    /\ result' = [result EXCEPT ![Top(gtk).id] = "ok"]
    /\ accessors' = accessors \cup {"loop"}
    /\ gtk' = Pop(gtk)
    /\ UNCHANGED <<shared, pending, channel, cb, js, app_hold_guard, loop_running,
                   enqueued, started, next_op, next_cb, signals>>
    /\ UNCHANGED <<next_object_id, issued, finalized, op_obj, op_arg, op_val, native_ptrs,
                   ffi_source, conv>>

\* read(o, type, offset): mpsc::channel, gtk_dispatch::schedule(handle_read).
read ==
    \E o \in IssuedIds :
        /\ JsCanStart
        /\ result' = [result EXCEPT ![next_op] = "empty"]
        /\ op_obj' = [op_obj EXCEPT ![next_op] = o]
        /\ op_arg' = op_arg
        /\ js' = Append(js, JsFrame("read", "load_stopped", next_op))
        /\ next_op' = next_op + 1
        /\ UNCHANGED <<shared, pending, channel, cb, gtk, app_hold_guard, loop_running,
                       enqueued, started, next_cb, signals>>
        /\ UNCHANGED <<object_map, next_object_id, issued, finalized, op_val, native_ptrs,
                       accessors, ffi_source, conv>>

\* What handle_read finds at the field: a number, a boolean, a string or a null
\* pointer ("value"), a pointer to an object or a boxed value ("object"), a
\* string that is not UTF-8 ("bad_utf8"), or a field type that is none of
\* Integer, Float, Boolean, String, GObject, Boxed ("unsupported").
ReadFields == {"value", "object", "bad_utf8", "unsupported"}

\* The task of read(): handle_read resolves the identity
\* (`object_id.as_ptr().ok_or_else(..)?`) and reads the field through the
\* pointer; an object or boxed field that is not null is registered with
\* ObjectId::new.  (Registered pointers are never null, so the null test after
\* as_ptr() does not fire.)
handle_read ==
    /\ GtkTopIs("read", "run")
    /\ LET i == Top(gtk).id
           o == op_obj[i]
           r == ObjectId_as_ptr(object_map, o)
       IN IF r.t = "none"
          THEN /\ op_val' = [op_val EXCEPT ![i] = [t |-> "error"]]
               /\ UNCHANGED <<object_map, next_object_id, issued, native_ptrs>>
          ELSE \E field \in ReadFields :
               \/ /\ field = "unsupported"
                  /\ op_val' = [op_val EXCEPT ![i] = [t |-> "error"]]
                  /\ UNCHANGED <<object_map, next_object_id, issued, native_ptrs>>
               \/ /\ field = "bad_utf8"
                  /\ native_ptrs' = native_ptrs \cup {<<o, r.ptr>>}
                  /\ op_val' = [op_val EXCEPT ![i] = [t |-> "error"]]
                  /\ UNCHANGED <<object_map, next_object_id, issued>>
               \/ /\ field = "value"
                  /\ native_ptrs' = native_ptrs \cup {<<o, r.ptr>>}
                  /\ op_val' = [op_val EXCEPT ![i] = [t |-> "value"]]
                  /\ UNCHANGED <<object_map, next_object_id, issued>>
               \/ /\ field = "object"
                  /\ next_object_id <= MaxObjects
                  /\ native_ptrs' = native_ptrs \cup {<<o, r.ptr>>}
                  /\ \E a \in Addrs :
                       LET n == ObjectId_new(object_map, next_object_id, a) IN
                       /\ object_map' = n.map
                       /\ next_object_id' = n.next
                       /\ issued' = Append(issued, n.id)
                       /\ op_val' = [op_val EXCEPT ![i] = [t |-> "object", id |-> n.id, addr |-> a]]
    /\ result' = [result EXCEPT ![Top(gtk).id] = "ok"]
    /\ accessors' = accessors \cup {"loop"}
    /\ gtk' = Pop(gtk)
    /\ UNCHANGED <<shared, pending, channel, cb, js, app_hold_guard, loop_running,
                   enqueued, started, next_op, next_cb, signals>>
    /\ UNCHANGED <<finalized, op_obj, op_arg, ffi_source, conv>>

RegNext ==
    \/ call_object
    \/ get_object_id
    \/ read
    \/ finalize
    \/ stop
    \/ schedule_load_stopped
    \/ schedule_push
    \/ schedule_cas
    \/ process_pending
    \/ wait_for_result_try_recv
    \/ get_object_id_recv
    \/ read_recv
    \/ stop_recv
    \/ finalize_return
    \/ dispatch_batch_begin
    \/ dispatch_batch_pop
    \/ dispatch_batch_rearm
    \/ handle_call_object
    \/ get_object_id_task
    \/ handle_read
    \/ finalize_task
    \/ stop_task
    \/ main_loop_exit

RegSpec == Init /\ [][RegNext]_vars

\* =========================================================================
\* alloc() and write(): the ffi_source queue
\* =========================================================================

\* FfiCallbackQueue: Mutex<VecDeque> with push_back / pop_front.
FfiCallbackQueue_push(q, t) == Append(q, t)
FfiCallbackQueue_is_empty(q) == q = <<>>
FfiCallbackQueue_front(q) == Head(q)
FfiCallbackQueue_pop(q) == Tail(q)

\* alloc(size, type): mpsc::channel, then ffi_source::schedule(handle_alloc).
alloc ==
    /\ JsCanStart
    /\ result' = [result EXCEPT ![next_op] = "empty"]
    /\ js' = Append(js, JsFrame("alloc", "ffi_push", next_op))
    /\ next_op' = next_op + 1
    /\ UNCHANGED <<shared, pending, channel, cb, gtk, app_hold_guard, loop_running,
                   enqueued, started, next_cb, signals>>
    /\ UNCHANGED ext

\* write(o, type, offset, value): mpsc::channel, then ffi_source::schedule(handle_write).
write ==
    \E o \in IssuedIds :
        /\ JsCanStart
        /\ result' = [result EXCEPT ![next_op] = "empty"]
        /\ op_obj' = [op_obj EXCEPT ![next_op] = o]
        /\ op_arg' = op_arg
        /\ js' = Append(js, JsFrame("write", "ffi_push", next_op))
        /\ next_op' = next_op + 1
        /\ UNCHANGED <<shared, pending, channel, cb, gtk, app_hold_guard, loop_running,
                       enqueued, started, next_cb, signals>>
        /\ UNCHANGED <<object_map, next_object_id, issued, finalized, op_val, native_ptrs,
                       accessors, ffi_source, conv>>

\* ffi_source::schedule, `FFI_QUEUE.push(Box::new(callback))`; there is no test of
\* a stopped flag.
ffi_schedule_push ==
    /\ JsTopIn(FfiKinds, "ffi_push")
    /\ FFI_QUEUE' = FfiCallbackQueue_push(FFI_QUEUE, [id |-> Top(js).id, kind |-> Top(js).k])
    /\ js' = SetTopPc(js, "ffi_cas")
    /\ UNCHANGED <<shared, pending, channel, result, cb, gtk, app_hold_guard,
                   loop_running, enqueued, started, next_op, next_cb, signals>>
    /\ UNCHANGED <<registry, FFI_DISPATCH_SCHEDULED, ffi_idle_sources, conv>>

\* ffi_source::schedule, `if dispatch_scheduled.compare_exchange(false, true)
\* { idle_add_once(dispatch_batch) }`.
ffi_schedule_cas ==
    /\ JsTopIn(FfiKinds, "ffi_cas")
    /\ IF FFI_DISPATCH_SCHEDULED = FALSE
       THEN /\ FFI_DISPATCH_SCHEDULED' = TRUE
            /\ ffi_idle_sources' = ffi_idle_sources + 1
       ELSE UNCHANGED <<FFI_DISPATCH_SCHEDULED, ffi_idle_sources>>
    /\ js' = SetTopPc(js, "recv")
    /\ UNCHANGED <<shared, pending, channel, result, cb, gtk, app_hold_guard,
                   loop_running, enqueued, started, next_op, next_cb, signals>>
    /\ UNCHANGED <<registry, FFI_QUEUE, conv>>

\* The main loop dispatches the idle source of ffi_source: dispatch_batch starts
\* with `dispatch_scheduled.store(false)`.
ffi_dispatch_batch_begin ==
    /\ gtk = <<>>
    /\ loop_running
    /\ ffi_idle_sources > 0
    /\ ffi_idle_sources' = ffi_idle_sources - 1
    /\ FFI_DISPATCH_SCHEDULED' = FALSE
    /\ gtk' = <<GtkFrame("ffi_dispatch_batch", "pop", 0, FALSE)>>
    /\ UNCHANGED <<shared, pending, channel, result, cb, js, app_hold_guard,
                   loop_running, enqueued, started, next_op, next_cb, signals>>
    /\ UNCHANGED <<registry, FFI_QUEUE, conv>>

\* ffi_source::dispatch_batch, `while let Some(callback) = FFI_QUEUE.pop()`.
ffi_dispatch_batch_pop ==
    /\ GtkTopIs("ffi_dispatch_batch", "pop")
    /\ IF ~FfiCallbackQueue_is_empty(FFI_QUEUE)
       THEN LET t == FfiCallbackQueue_front(FFI_QUEUE) IN
            /\ FFI_QUEUE' = FfiCallbackQueue_pop(FFI_QUEUE)
            /\ gtk' = Append(gtk, GtkFrame(t.kind, "run", t.id, FALSE))
       ELSE /\ gtk' = SetTopPc(gtk, "rearm")
            /\ UNCHANGED FFI_QUEUE
    /\ UNCHANGED <<shared, pending, channel, result, cb, js, app_hold_guard,
                   loop_running, enqueued, started, next_op, next_cb, signals>>
    /\ UNCHANGED <<registry, FFI_DISPATCH_SCHEDULED, ffi_idle_sources, conv>>

\* ffi_source::dispatch_pending: `while let Some(callback) = FFI_QUEUE.pop()
\* { callback(); }`, without touching dispatch_scheduled.  Nothing in the
\* sources calls it (wait_for_js_result calls gtk_dispatch::dispatch_pending),
\* so it is a step of no specification.
ffi_dispatch_pending_pop ==
    /\ GtkTopIs("ffi_dispatch_pending", "pop")
    /\ IF ~FfiCallbackQueue_is_empty(FFI_QUEUE)
       THEN LET t == FfiCallbackQueue_front(FFI_QUEUE) IN
            /\ FFI_QUEUE' = FfiCallbackQueue_pop(FFI_QUEUE)
            /\ gtk' = Append(gtk, GtkFrame(t.kind, "run", t.id, FALSE))
       ELSE /\ gtk' = Pop(gtk)
            /\ UNCHANGED FFI_QUEUE
    /\ UNCHANGED <<shared, pending, channel, result, cb, js, app_hold_guard,
                   loop_running, enqueued, started, next_op, next_cb, signals>>
    /\ UNCHANGED <<registry, FFI_DISPATCH_SCHEDULED, ffi_idle_sources, conv>>

\* ffi_source::dispatch_batch, the re-arm at its end.
ffi_dispatch_batch_rearm ==
    /\ GtkTopIs("ffi_dispatch_batch", "rearm")
    /\ IF ~FfiCallbackQueue_is_empty(FFI_QUEUE) /\ FFI_DISPATCH_SCHEDULED = FALSE
       THEN /\ FFI_DISPATCH_SCHEDULED' = TRUE
            /\ ffi_idle_sources' = ffi_idle_sources + 1
       ELSE UNCHANGED <<FFI_DISPATCH_SCHEDULED, ffi_idle_sources>>
    /\ gtk' = Pop(gtk)
    /\ UNCHANGED <<shared, pending, channel, result, cb, js, app_hold_guard,
                   loop_running, enqueued, started, next_op, next_cb, signals>>
    /\ UNCHANGED <<registry, FFI_QUEUE, conv>>

\* The task of alloc(): handle_alloc; g_malloc0 returns null for size 0, otherwise
\* the block is registered with ObjectId::new.
handle_alloc ==
    /\ GtkTopIs("alloc", "run")
    /\ LET i == Top(gtk).id IN
       \/ /\ op_val' = [op_val EXCEPT ![i] = [t |-> "error"]]
          /\ UNCHANGED <<object_map, next_object_id, issued>>
       \/ /\ next_object_id <= MaxObjects
          /\ \E a \in Addrs :
               LET n == ObjectId_new(object_map, next_object_id, a) IN
               /\ object_map' = n.map
               /\ next_object_id' = n.next
               /\ issued' = Append(issued, n.id)
               /\ op_val' = [op_val EXCEPT ![i] = [t |-> "object", id |-> n.id, addr |-> a]]
    /\ result' = [result EXCEPT ![Top(gtk).id] = "ok"]
    /\ accessors' = accessors \cup {"loop"}
    /\ gtk' = Pop(gtk)
    /\ UNCHANGED <<shared, pending, channel, cb, js, app_hold_guard, loop_running,
                   enqueued, started, next_op, next_cb, signals>>
    /\ UNCHANGED <<finalized, op_obj, op_arg, native_ptrs, ffi_source, conv>>

\* The task of write(): handle_write resolves the identity and writes the
\* field when the pair of type and value is (Integer, Number), (Float, Number)
\* or (Boolean, Boolean); any other pair is an error and no byte is written.
handle_write ==
    /\ GtkTopIs("write", "run")
    /\ LET i == Top(gtk).id
           o == op_obj[i]
           r == ObjectId_as_ptr(object_map, o)
       IN IF r.t = "none"
          THEN /\ op_val' = [op_val EXCEPT ![i] = [t |-> "error"]]
               /\ UNCHANGED native_ptrs
          ELSE \E supported \in BOOLEAN :
               IF supported
               THEN /\ native_ptrs' = native_ptrs \cup {<<o, r.ptr>>}
                    /\ op_val' = [op_val EXCEPT ![i] = [t |-> "value"]]
               ELSE /\ op_val' = [op_val EXCEPT ![i] = [t |-> "error"]]
                    /\ UNCHANGED native_ptrs
    /\ result' = [result EXCEPT ![Top(gtk).id] = "ok"]
    /\ accessors' = accessors \cup {"loop"}
    /\ gtk' = Pop(gtk)
    /\ UNCHANGED <<shared, pending, channel, cb, js, app_hold_guard, loop_running,
                   enqueued, started, next_op, next_cb, signals>>
    /\ UNCHANGED <<object_map, next_object_id, issued, finalized, op_obj, op_arg, ffi_source, conv>>

\* Steps of the scripting thread and of the loop thread when the scripting code
\* uses call(), getObjectId(), alloc() and write(), also from inside callbacks.
IoJsStep ==
    \/ schedule_load_stopped
    \/ schedule_push
    \/ schedule_cas
    \/ ffi_schedule_push
    \/ ffi_schedule_cas
    \/ process_pending
    \/ wait_for_result_try_recv
    \/ get_object_id_recv
    \/ alloc_recv
    \/ write_recv
    \/ callback_return
    \/ channel_run

IoGtkStep ==
    \/ dispatch_batch_begin
    \/ dispatch_batch_pop
    \/ dispatch_batch_rearm
    \/ ffi_dispatch_batch_begin
    \/ ffi_dispatch_batch_pop
    \/ ffi_dispatch_batch_rearm
    \/ task_finish
    \/ get_object_id_task
    \/ handle_alloc
    \/ handle_write
    \/ invoke_is_js_waiting
    \/ queue
    \/ send_via_channel
    \/ wait_for_js_result_try_recv
    \/ dispatch_pending_pop
    \/ dispatch_pending_store
    \/ dispatch_pending_rearm

IoBound == next_op <= LiveMaxOps + 1

IoNext ==
    \/ (call /\ IoBound')
    \/ (get_object_id /\ IoBound')
    \/ (alloc /\ IoBound')
    \/ (write /\ IoBound')
    \/ IoJsStep
    \/ runtime_exit
    \/ GtkFire
    \/ IoGtkStep

IoSpec == Init /\ [][IoNext]_vars /\ WF_vars(IoJsStep) /\ WF_vars(IoGtkStep)

\* =========================================================================
\* Properties
\* =========================================================================

TypeOK ==
    /\ DISPATCH_SCHEDULED \in BOOLEAN
    /\ STOPPED \in BOOLEAN
    /\ JS_WAIT_DEPTH \in Int
    /\ idle_sources \in Nat
    /\ \A i \in OpIds :
          result[i] \in {"unused", "empty", "ok", "disconnected", "taken", "failed",
                         "stop_failed"}
    /\ \A c \in CbIds : cb[c].st \in {"unused", "fired", "queued", "running", "sent", "taken", "disconnected"}

\* Callbacks fired so far, and operations started so far.
FiredCbs == 1..(next_cb - 1)
StartedOps == 1..(next_op - 1)

ResultOf(i) == IF i \in OpIds THEN result[i] ELSE "none"

\* Operation i is a call()/batchCall() that has not returned yet.
Waiting(i) == \E n \in 1..Len(js) : js[n].id = i /\ js[n].k \in CallKinds

QueuedIds == {QUEUE[n].id : n \in 1..Len(QUEUE)}
StartedIds == {started[n] : n \in 1..Len(started)}

NoDrainInProgress ==
    \A n \in 1..Len(gtk) : gtk[n].k \notin {"dispatch_batch", "dispatch_pending"}

\* ------------------------------------------------------------------- C1
\* C1: under fair scheduling of the two threads, a call whose task fires a
\* callback completes: the callback is executed and its result received by the
\* loop thread, the task finishes and the call takes its result.
C1_ReentrantCallCompletes ==
    \A c \in CbIds :
        (cb[c].origin = "task" /\ cb[c].st = "fired")
            ~> (cb[c].st = "taken" /\ ResultOf(cb[c].owner) = "taken")

\* A nested round trip has completed: the callback of the inner call's task was
\* answered and both calls took their results.
C1_Witness ==
    \E c, d \in FiredCbs :
        /\ c # d
        /\ cb[c].origin = "task" /\ cb[d].origin = "task"
        /\ cb[c].owner # cb[d].owner
        /\ cb[c].st = "taken" /\ cb[d].st = "taken"
        /\ ResultOf(cb[c].owner) = "taken" /\ ResultOf(cb[d].owner) = "taken"

\* ------------------------------------------------------------------- C2
\* C2: a callback fired while the loop thread executes the task of a call() or
\* batchCall() takes the synchronous queue, never the channel; the waiting depth
\* is positive for as long as such a task is queued or executing.
C2_TaskCallbacksUseSyncQueue ==
    /\ \A c \in FiredCbs : cb[c].origin = "task" => cb[c].path \in {"none", "sync"}
    /\ \A n \in 1..Len(gtk) :
          (gtk[n].k = "trampoline" /\ cb[gtk[n].id].origin = "task")
              => gtk[n].pc # "send_via_channel"
    /\ \A n \in 1..Len(gtk) : gtk[n].k \in CallKinds => JS_WAIT_DEPTH > 0
    /\ \A n \in 1..Len(QUEUE) : QUEUE[n].kind \in CallKinds => JS_WAIT_DEPTH > 0

C2_Witness ==
    \E c \in FiredCbs :
        /\ cb[c].origin = "task"
        /\ cb[c].path = "sync"
        /\ cb[c].st = "taken"
        /\ JS_WAIT_DEPTH = 1

\* ------------------------------------------------------------------- C3
\* C3: every callback the loop thread puts on the synchronous queue is eventually
\* executed by the scripting thread and its result received by the loop thread.
C3_SyncCallbackEventuallyAnswered ==
    \A c \in CbIds :
        (cb[c].path = "sync" /\ cb[c].st = "queued") ~> (cb[c].st = "taken")

\* ------------------------------------------------------------------- C4
\* C4: a callback put on the synchronous queue while the waiting depth was positive
\* is executed before the wait loop that was innermost at that moment takes its
\* own result.
C4_DrainedBeforeOwnResult ==
    \A c \in FiredCbs :
        (cb[c].path = "sync" /\ cb[c].st = "queued" /\ cb[c].waiter # 0)
            => ResultOf(cb[c].waiter) # "taken"

\* ------------------------------------------------------------------- C5
\* C5: the waiting depth equals the number of call()/batchCall() invocations
\* between enter_js_wait and exit_js_wait, and is never negative.
C5_DepthCountsWaitingCalls ==
    /\ JS_WAIT_DEPTH = Len(CallFrameIds(js))
    /\ JS_WAIT_DEPTH >= 0

\* Two nested calls are waiting after an earlier call has returned.
C5_Witness ==
    /\ JS_WAIT_DEPTH = 2
    /\ \E i \in StartedOps : result[i] \in {"taken", "failed"}

\* ------------------------------------------------------------------- C6
\* C6: under fair scheduling, a callback sent on the channel is eventually run by
\* the scripting thread and its result received by the loop thread, also when the
\* scripting thread enters the wait loop of a call first.
C6_ChannelCallbackEventuallyAnswered ==
    \A c \in CbIds :
        (cb[c].path = "chan" /\ cb[c].st = "queued") ~> (cb[c].st = "taken")

\* A channel callback has been answered while another callback, fired by the task
\* of a call that the scripting thread entered meanwhile, went through the queue.
C6_Witness ==
    \E c, d \in FiredCbs :
        /\ cb[c].path = "chan" /\ cb[c].st = "taken"
        /\ d > c
        /\ cb[d].path = "sync" /\ cb[d].st = "taken"

\* ------------------------------------------------------------------- C7
\* C7: once the loop thread has ended no scheduled task is left in the queue, and
\* a call that is then waiting on a task that was not executed returns an error.
C7_QueueEmptyAtExit == ~loop_running => QUEUE = <<>>

C7_WaitFailsAfterShutdown ==
    /\ []C7_QueueEmptyAtExit
    /\ \A i \in OpIds :
          (~loop_running /\ Waiting(i) /\ result[i] \in {"empty", "disconnected"})
              ~> (result[i] = "failed")

C7_Witness ==
    /\ ~loop_running
    /\ \E i \in StartedOps : result[i] = "failed"

\* ------------------------------------------------------------------- C8
\* C8: at most one idle source (wake-up of the main loop) is pending at any time.
C8_AtMostOneWakeup == idle_sources <= 1

\* ------------------------------------------------------------------- C9
\* C9: no wake-up is lost.  Whenever the queue is non-empty, no drain is in
\* progress and schedule() is not between its push and its compare-exchange, an
\* idle source is pending; and under fair scheduling every queued task is
\* eventually started.
C9_WakeupPendingInv ==
    (QUEUE # <<>> /\ NoDrainInProgress /\ ~JsTopIn(OpKinds, "cas")) => idle_sources > 0

C9_NoLostWakeup ==
    /\ []C9_WakeupPendingInv
    /\ \A i \in OpIds : (i \in QueuedIds) ~> (i \in StartedIds)

\* A task arrived after the batch drain popped its last task, and an earlier
\* task has been started.
C9_Witness ==
    /\ GtkTopIs("dispatch_batch", "rearm")
    /\ QUEUE # <<>>
    /\ started # <<>>

\* ------------------------------------------------------------------ C10
\* C10: tasks begin execution in exactly the order schedule() pushed them,
\* whichever drain routine pops them.
C10_TasksStartInFifoOrder ==
    /\ Len(started) <= Len(enqueued)
    /\ started = SubSeq(enqueued, 1, Len(started))

\* Three tasks have started, the last one popped by a re-entrant drain nested in
\* the batch drain.
C10_Witness ==
    /\ Len(started) >= 3
    /\ \E m, n \in 1..Len(gtk) :
          /\ m < n
          /\ gtk[m].k = "dispatch_batch"
          /\ gtk[n].k = "dispatch_pending"
          /\ gtk[n].flag

\* ------------------------------------------------------------------ C11
\* C11: callbacks on the synchronous queue are executed in the order they were
\* pushed: the n-th callback popped by a wait loop, nested or not, is the n-th
\* callback pushed.
C11_PendingCallbacksFifo ==
    \A c \in FiredCbs : cb[c].popped > 0 => cb[c].popped = cb[c].pushed

\* Two callbacks were in the queue together and both have been executed, the
\* second one behind the first.
C11_Witness ==
    \E c, d \in FiredCbs :
        /\ cb[c].popped = 1
        /\ cb[d].popped = 2
        /\ cb[d].ahead = 1
        /\ cb[d].st \in {"sent", "taken"}

\* ------------------------------------------------------------------ C12
\* C12: once the dispatch system is marked stopped, schedule() discards its task:
\* the call returns without touching the queue, the wake-up flag or the idle
\* sources; from then on the queue does not grow, no task starts and the registry
\* does not change; a discarded task is never in the queue and never starts, and
\* the identity of a discarded finalizer removal stays registered.
EnqueuedIds == {enqueued[n] : n \in 1..Len(enqueued)}

Discarded(i) == result[i] \in {"disconnected", "failed", "stop_failed"}

C12_DiscardedInv ==
    \A i \in StartedOps :
        Discarded(i) =>
            /\ i \notin EnqueuedIds
            /\ i \notin QueuedIds
            /\ i \notin StartedIds
            /\ op_val[i].t = "finalizer" => op_obj[i] \in DOMAIN object_map

C12_StoppedStep ==
    /\ STOPPED =>
          /\ Len(QUEUE') <= Len(QUEUE)
          /\ started' = started
          /\ object_map' = object_map
    /\ (STOPPED /\ JsTopIn(OpKinds, "load_stopped") /\ js' # js) =>
          /\ shared' = shared
          /\ Len(js') = Len(js)
          /\ Top(js').pc = AfterSchedule(Top(js).k)

C12_StoppedDiscards == []C12_DiscardedInv /\ [][C12_StoppedStep]_vars

\* After the loop thread has ended, a finalizer's removal was discarded and the
\* finalized identity is still registered.
C12_Witness ==
    /\ ~loop_running
    /\ \E i \in StartedOps :
          /\ op_val[i].t = "finalizer"
          /\ result[i] = "disconnected"
          /\ js = <<>>
          /\ op_obj[i] \in DOMAIN object_map

\* ------------------------------------------------------------------ C13
\* C13: while the loop thread is blocked in a trampoline round trip, every task
\* the scripting side has scheduled, through gtk_dispatch (call, getObjectId) or
\* through ffi_source (alloc, write), is eventually executed.
FfiQueuedIds == {FFI_QUEUE[n].id : n \in 1..Len(FFI_QUEUE)}

InTrampoline == \E n \in 1..Len(gtk) : gtk[n].k = "trampoline"

\* The task of operation i has begun: popped from the gtk_dispatch queue, or run
\* to its send (tasks of ffi_source fire no callbacks).
Executed(i) == i \in StartedIds \/ result[i] \in {"ok", "taken"}

C13_TasksRunDuringRoundTrip ==
    \A i \in OpIds :
        (InTrampoline /\ i \in (QueuedIds \cup FfiQueuedIds)) ~> Executed(i)

\* The part of C13 that concerns the gtk_dispatch queue alone.
C13_GtkDispatchTasksRun ==
    \A i \in OpIds :
        (InTrampoline /\ i \in QueuedIds) ~> Executed(i)

\* ------------------------------------------------------------------ C14
\* C14: whenever the scripting thread waits for a response of the loop thread
\* that has not arrived, it is inside the wait loop of call()/batchCall(), which
\* keeps executing pending callbacks; it never sits in a blocking receive.
JsAwaitsResponse ==
    /\ js # <<>>
    /\ Top(js).k \in (OpKinds \cup FfiKinds) \ {"finalize"}
    /\ Top(js).pc \in {"process_pending", "try_recv", "recv"}
    /\ result[Top(js).id] = "empty"

C14_BlocksOnlyInWaitLoop ==
    JsAwaitsResponse => (Top(js).k \in CallKinds /\ Top(js).pc # "recv")

\* The scripting thread sits in a blocking receive while a callback is waiting
\* for it on the synchronous queue.
C14_InertWithPendingCallback ==
    /\ JsAwaitsResponse
    /\ Top(js).pc = "recv"
    /\ pending # <<>>

\* ------------------------------------------------------------------ C15
\* C15: the identities returned by ObjectId::new start above zero and are strictly
\* increasing in the order they are issued, whatever was removed in between; the
\* counter stays above every identity issued and every registered identity was
\* issued.
C15_IdentitiesIncrease ==
    /\ \A n \in 1..Len(issued) : issued[n] > 0 /\ issued[n] < next_object_id
    /\ \A n, k \in 1..Len(issued) : n < k => issued[n] < issued[k]
    /\ DOMAIN object_map \subseteq IssuedIds

\* A second identity has been issued after the first one was removed.
C15_Witness ==
    /\ Len(issued) >= 2
    /\ issued[1] \notin DOMAIN object_map
    /\ issued[2] \in DOMAIN object_map

\* ------------------------------------------------------------------ C16
\* C16: an identity resolves to the native address of the object registered
\* under it as long as it has not been removed, whatever else was removed, and
\* to "gone" once it has been removed; an identity never issued is "gone" too.
RegisteredBy(i) == result[i] \in {"ok", "taken"} /\ op_val[i].t = "object"

RemovedIds ==
    {op_obj[j] : j \in {k \in OpIds : op_val[k].t = "finalizer" /\ result[k] = "ok"}}

C16_ResolveReturnsRegistered ==
    /\ \A i \in OpIds :
          RegisteredBy(i) =>
              ObjectId_as_ptr(object_map, op_val[i].id) =
                  IF op_val[i].id \in RemovedIds
                  THEN [t |-> "none"]
                  ELSE [t |-> "some", ptr |-> op_val[i].addr]
    /\ \A o \in ObjIds \ IssuedIds : ObjectId_as_ptr(object_map, o) = [t |-> "none"]

\* Two identities were registered and one of them has been removed.
C16_Witness ==
    \E i, j \in OpIds :
        /\ RegisteredBy(i) /\ RegisteredBy(j)
        /\ op_val[i].id \in RemovedIds
        /\ op_val[j].id \notin RemovedIds
        /\ ObjectId_as_ptr(object_map, op_val[j].id).t = "some"

\* ------------------------------------------------------------------ C17
\* C17: only the loop thread reads or writes the registry.  Every step that
\* changes the map or the counter is the step of a task running on the loop
\* thread, and the finalizer, on the scripting thread, leaves the map untouched
\* and schedules the removal as a task.
C17_OnlyLoopAccessors == accessors \subseteq {"loop"}

C17_RegistryStep ==
    /\ (object_map' # object_map \/ next_object_id' # next_object_id \/ accessors' # accessors) =>
          /\ gtk # <<>>
          /\ Top(gtk).pc = "run"
          /\ gtk' = Pop(gtk)
          /\ js' = js
    /\ finalized' # finalized =>
          /\ object_map' = object_map
          /\ accessors' = accessors
          /\ js' = Append(js, JsFrame("finalize", "load_stopped", next_op))

ResolvingOp(i) ==
    /\ op_obj[i] \in RemovedIds
    /\ op_val[i].t # "finalizer"
    /\ result[i] = "empty"

C18_StaleStep ==
    \A i \in OpIds :
        (ResolvingOp(i) /\ result'[i] = "ok")
        => /\ op_val'[i].t \in {"error", "none"}
           /\ native_ptrs' = native_ptrs

C18_StaleIdentityFails == [][C18_StaleStep]_vars

\* A null pointer has been handed to native code in place of the address of a
\* removed identity.
C18_NullSubstituted ==
    \E i \in OpIds :
        /\ op_obj[i] \in RemovedIds
        /\ op_val[i].t = "value"
        /\ <<op_obj[i], 0>> \in native_ptrs

\* The other resolution sites: a gobject, boxed or ref argument, a field read
\* and an address query on a removed identity end with an error and hand over
\* no pointer.
C18_StrictSitesStep ==
    \A i \in OpIds :
        (ResolvingOp(i) /\ result'[i] = "ok" /\ op_arg[i] # "array")
        => /\ op_val'[i].t \in {"error", "none"}
           /\ native_ptrs' = native_ptrs

C18_StrictSitesFail == [][C18_StrictSitesStep]_vars

\* An operation on a removed identity has ended with an error.
C18_ErrorReturned ==
    \E i \in OpIds :
        /\ op_obj[i] \in RemovedIds
        /\ op_val[i].t \in {"error", "none"}
        /\ result[i] \in {"ok", "taken"}


\* =========================================================================
\* The marshaling boundary: TryFrom<Arg> for cif::Value
\* =========================================================================

MaxArgs == 2

\* The trampoline kinds Value::try_from_callback matches on.
TrampolineKinds ==
    {"closure", "asyncReady", "destroy", "sourceFunc", "drawFunc", "compareDataFunc"}

\* Value::try_from_callback: the native value built for a callback argument.
\* value is "callback", "null" or "other"; a null value is accepted only for an
\* optional argument and becomes a plain null pointer whatever the kind.
try_from_callback(trampoline, value, optional) ==
    IF value = "null"
    THEN IF optional THEN [v |-> "Ptr", ptr |-> "null"] ELSE [v |-> "error"]
    ELSE IF value # "callback" THEN [v |-> "error"]
    ELSE IF trampoline = "closure" THEN [v |-> "OwnedPtr", ptr |-> "closure"]
    ELSE [v |-> "TrampolineCallback",
          destroy_ptr |-> trampoline \in {"sourceFunc", "drawFunc", "compareDataFunc"}]

\* Type descriptors: a kind, for array and ref the kind of the item or of the
\* inner type, and for a callback (also inside a ref) its trampoline.
FlatKinds == {"int", "float", "string", "boolean", "null", "undefined",
              "gobject", "boxed", "callback"}

TypeDescriptors ==
    [k : FlatKinds \ {"callback"}, of : {"none"}, trampoline : {"none"}]
        \cup [k : {"callback"}, of : {"none"}, trampoline : TrampolineKinds]
        \cup [k : {"array"}, of : FlatKinds, trampoline : {"none"}]
        \cup [k : {"ref"}, of : FlatKinds \ {"callback"}, trampoline : {"none"}]
        \cup [k : {"ref"}, of : {"callback"}, trampoline : TrampolineKinds]

\* Dynamic values by tag: for an array the tag of its item ("empty": no item),
\* for a ref the tag of the value it wraps.  q tells what the tag does not: a
\* string (also as item or wrapped) that contains a NUL byte ("nul"), an object
\* whose identity is no longer in object_map ("stale").
FlatTags == {"number", "string", "boolean", "object", "null", "undefined", "callback"}

DynamicValues ==
    [tag : FlatTags, of : {"none"}, q : {"plain"}]
        \cup {[tag |-> "string", of |-> "none", q |-> "nul"],
              [tag |-> "object", of |-> "none", q |-> "stale"]}
        \cup [tag : {"array"}, of : FlatTags \cup {"empty"}, q : {"plain"}]
        \cup {[tag |-> "array", of |-> "string", q |-> "nul"],
              [tag |-> "array", of |-> "object", q |-> "stale"]}
        \cup [tag : {"ref"}, of : FlatTags, q : {"plain"}]
        \cup {[tag |-> "ref", of |-> "string", q |-> "nul"],
              [tag |-> "ref", of |-> "object", q |-> "stale"]}

\* The arms of TryFrom<Arg> that take a value of a flat kind: the cif::Value
\* variant they build ("scalar" for U8..F64), or "error".  The String arm fails
\* in CString::new on a NUL byte, the GObject and Boxed arms on an identity that
\* as_ptr() no longer resolves; the Null and Undefined arms return a null
\* pointer without looking at the value.
try_from_flat(k, tag, q, optional, trampoline) ==
    LET absent == tag \in {"null", "undefined"} IN
    CASE k = "int"       -> IF tag = "number" \/ (absent /\ optional) THEN "scalar" ELSE "error"
      [] k = "float"     -> IF tag = "number" THEN "scalar" ELSE "error"
      [] k = "string"    -> IF tag = "string" THEN (IF q = "nul" THEN "error" ELSE "OwnedPtr")
                            ELSE IF absent THEN "Ptr" ELSE "error"
      [] k = "boolean"   -> IF tag = "boolean" THEN "scalar" ELSE "error"
      [] k = "null"      -> "Ptr"
      [] k = "undefined" -> "Ptr"
      [] k \in {"gobject", "boxed"} ->
                            IF tag = "object" THEN (IF q = "stale" THEN "error" ELSE "Ptr")
                            ELSE IF absent THEN "Ptr" ELSE "error"
      [] k = "callback"  -> try_from_callback(trampoline,
                                              IF tag = "callback" THEN "callback"
                                              ELSE IF absent THEN "null" ELSE "other",
                                              optional).v

\* Value::try_from_array: the value must be an array; integer, float, string,
\* gobject/boxed and boolean item types check every item, any other item type
\* is unsupported.  A string item goes through CString::new; an object item
\* that no longer resolves becomes a null pointer (unwrap_or).
try_from_array(item, v) ==
    IF v.tag # "array" THEN "error"
    ELSE CASE item \in {"int", "float"}     -> IF v.of \in {"empty", "number"} THEN "OwnedPtr" ELSE "error"
           [] item = "string"               -> IF v.of \in {"empty", "string"} /\ v.q # "nul"
                                               THEN "OwnedPtr" ELSE "error"
           [] item \in {"gobject", "boxed"} -> IF v.of \in {"empty", "object"} THEN "OwnedPtr" ELSE "error"
           [] item = "boolean"              -> IF v.of \in {"empty", "boolean"} THEN "OwnedPtr" ELSE "error"
           [] OTHER                         -> "error"

\* Value::try_from_ref: null and undefined give a null pointer, anything else
\* must be a ref; a gobject/boxed inner type takes an object (passed directly) or
\* null (fresh pointer storage) inside; any other inner type converts the wrapped
\* value as an argument of its own (Arg::new, not optional) and takes
\* `ref_value.as_ptr()`, which is unreachable!() for a TrampolineCallback.
try_from_ref(inner, v, trampoline) ==
    IF v.tag \in {"null", "undefined"} THEN "Ptr"
    ELSE IF v.tag # "ref" THEN "error"
    ELSE IF inner \in {"gobject", "boxed"}
         THEN IF v.of = "object" THEN (IF v.q = "stale" THEN "error" ELSE "Ptr")
              ELSE IF v.of \in {"null", "undefined"} THEN "OwnedPtr" ELSE "error"
    ELSE LET ref_value == try_from_flat(inner, v.of, v.q, FALSE, trampoline) IN
         IF ref_value = "error" THEN "error"
         ELSE IF ref_value = "TrampolineCallback" THEN "panic"
         ELSE "OwnedPtr"

\* TryFrom<Arg> for cif::Value: the variant built, "error" for Err, "panic".
Value_try_from_arg(a) ==
    CASE a.type.k = "array" -> try_from_array(a.type.of, a.value)
      [] a.type.k = "ref"   -> try_from_ref(a.type.of, a.value, a.type.trampoline)
      [] OTHER              -> try_from_flat(a.type.k, a.value.tag, a.value.q, a.optional,
                                             a.type.trampoline)

\* The value's tag matches the descriptor: a number for int and float, a string
\* for string, a boolean for boolean, an object for gobject and boxed, a
\* callback for callback, an array of matching items for array, a ref wrapping
\* a matching value for ref; null and undefined stand for an absent pointer
\* (string, gobject, boxed, ref, null, undefined) and for an absent optional
\* argument.
TagMatches(k, tag, optional) ==
    LET absent == tag \in {"null", "undefined"} IN
    CASE k \in {"int", "callback"}          -> tag = (IF k = "int" THEN "number" ELSE "callback")
                                                 \/ (absent /\ optional)
      [] k = "float"                         -> tag = "number"
      [] k = "string"                        -> tag = "string" \/ absent
      [] k = "boolean"                       -> tag = "boolean"
      [] k \in {"null", "undefined"}         -> absent
      [] k \in {"gobject", "boxed"}          -> tag = "object" \/ absent

Compatible(a) ==
    CASE a.type.k = "array" ->
            /\ a.value.tag = "array"
            /\ CASE a.type.of \in {"int", "float"}     -> a.value.of \in {"empty", "number"}
                 [] a.type.of = "string"               -> a.value.of \in {"empty", "string"}
                 [] a.type.of \in {"gobject", "boxed"} -> a.value.of \in {"empty", "object"}
                 [] a.type.of = "boolean"              -> a.value.of \in {"empty", "boolean"}
                 [] OTHER                              -> FALSE
      [] a.type.k = "ref"   ->
            \/ a.value.tag \in {"null", "undefined"}
            \/ /\ a.value.tag = "ref"
               /\ IF a.type.of \in {"gobject", "boxed"}
                  THEN a.value.of \in {"object", "null", "undefined"}
                  ELSE TagMatches(a.type.of, a.value.of, FALSE)
      [] OTHER              -> TagMatches(a.type.k, a.value.tag, a.optional)

Args == [type : TypeDescriptors, value : DynamicValues, optional : BOOLEAN]

\* handle_call, `args.into_iter().map(TryInto::try_into).collect::<Result<_>>()?`:
\* the arguments are converted from the left, one per step, until one fails.
marshal_arg ==
    /\ conv.phase \in {"idle", "args"}
    /\ conv.phase = "args" => conv.n < MaxArgs /\ conv.cif \notin {"error", "panic"}
    /\ \E a \in Args :
         conv' = [phase    |-> "args",
                  n        |-> IF conv.phase = "idle" THEN 1 ELSE conv.n + 1,
                  arg      |-> a,
                  cif      |-> Value_try_from_arg(a),
                  failed   |-> Value_try_from_arg(a) = "error",
                  mismatch |-> (conv.phase = "args" /\ conv.mismatch) \/ ~Compatible(a)]
    /\ UNCHANGED <<dispatch, registry, ffi_source>>

\* A conversion failed: `?` returns the error, before the symbol is looked up.
handle_call_error ==
    /\ conv.phase = "args"
    /\ conv.failed
    /\ conv' = [conv EXCEPT !.phase = "error"]
    /\ UNCHANGED <<dispatch, registry, ffi_source>>

\* A conversion hit unreachable!(): the task unwinds, nothing is looked up or
\* called.
handle_call_panic ==
    /\ conv.phase = "args"
    /\ conv.cif = "panic"
    /\ conv' = [conv EXCEPT !.phase = "panic"]
    /\ UNCHANGED <<dispatch, registry, ffi_source>>

\* Every conversion succeeded: the symbol is looked up (`?` twice), the result
\* type is matched (`_ => bail!`), and only then cif.call runs the native
\* function.
handle_call_native ==
    /\ conv.phase = "args"
    /\ conv.cif \notin {"error", "panic"}
    /\ \E lookup \in Lookups, result_type \in ResultTypes :
         conv' = [conv EXCEPT !.phase = IF lookup # "found" \/ result_type = "unsupported"
                                        THEN "error"
                                        ELSE IF result_type = "null" THEN "not_called"
                                        ELSE "called"]
    /\ UNCHANGED <<dispatch, registry, ffi_source>>

\* -------------------------------------------------------------------------
\* C19: when the tag of some argument's value does not match its type
\* descriptor, the call ends with an error and the native function is not
\* called.
\* -------------------------------------------------------------------------
C19_MismatchRejected ==
    (conv.phase \in {"called", "not_called", "error"} /\ conv.mismatch)
        => conv.phase = "error"

\* The native function has been called although an argument did not match.
C19_CalledWithMismatch == conv.phase = "called" /\ conv.mismatch

\* Every arm that looks at the value rejects a tag that does not match.
C19_InspectingArmsStep ==
    (/\ conv'.phase = "args"
     /\ conv' # conv
     /\ ~Compatible(conv'.arg)
     /\ conv'.arg.type.k \notin {"null", "undefined"}
     /\ ~(conv'.arg.type.k = "ref" /\ conv'.arg.type.of \in {"null", "undefined"}))
    => conv'.failed

C19_InspectingArmsReject == [][C19_InspectingArmsStep]_vars


\* -------------------------------------------------------------------------
\* Scalar conversions, one at a time
\* -------------------------------------------------------------------------
\* to_native: a type descriptor and a value are drawn and converted.
scalar_to_native ==
    /\ conv.phase = "idle"
    /\ \E t \in ScalarTypes, v \in ScalarValues :
         conv' = [phase |-> "native", type |-> t, value |-> v,
                  native |-> Value_try_from_scalar(t, v)]
    /\ UNCHANGED <<dispatch, registry, ffi_source>>

\* from_native on what to_native produced.
scalar_from_native ==
    /\ conv.phase = "native"
    /\ conv.native # CifError
    /\ conv' = [phase |-> "back", type |-> conv.type, value |-> conv.value,
                native |-> conv.native,
                out |-> Value_from_cif_value(conv.native, conv.type)]
    /\ UNCHANGED <<dispatch, registry, ffi_source>>

\* -------------------------------------------------------------------------
\* Ownership of object, boxed and variant pointers across the boundary
\* -------------------------------------------------------------------------
ObjectKinds == {"gobject", "boxed", "gvariant"}

\* TryFrom<Arg> for cif::Value, GObject and Boxed arms, on a value that is null
\* ("null"), a registered identity ("live") or a removed one ("stale"):
\* the pointer handed to the call and the g_object_ref / g_boxed_copy calls
\* made.  gtype: BoxedType::get_gtype() found the type.
try_from_object_arg(kind, is_borrowed, value, gtype) ==
    LET is_transfer_full == ~is_borrowed /\ value = "live" IN
    IF value = "stale" THEN [ptr |-> "error", refs |-> 0, copies |-> 0]
    ELSE IF value = "null" THEN [ptr |-> "null", refs |-> 0, copies |-> 0]
    ELSE IF kind = "gobject"
         THEN [ptr |-> "registered", refs |-> IF is_transfer_full THEN 1 ELSE 0, copies |-> 0]
    ELSE IF is_transfer_full /\ gtype
         THEN [ptr |-> "copy", refs |-> 0, copies |-> 1]
    ELSE [ptr |-> "registered", refs |-> 0, copies |-> 0]

\* An object or boxed argument is drawn and marshaled.
object_to_native ==
    /\ conv.phase = "idle"
    /\ \E kind \in {"gobject", "boxed"}, is_borrowed \in BOOLEAN,
          value \in {"null", "live", "stale"}, gtype \in BOOLEAN :
         /\ kind = "gobject" => gtype
         /\ conv' = [phase |-> "object_arg", kind |-> kind, is_borrowed |-> is_borrowed,
                     value |-> value, gtype |-> gtype,
                     native |-> try_from_object_arg(kind, is_borrowed, value, gtype)]
    /\ UNCHANGED <<dispatch, registry, ffi_source>>

\* Value::from_cif_value, GObject, Boxed and GVariant arms, on a returned
\* pointer: the dynamic value and what was done to the native object.
\* Borrowed: glib::Object::from_glib_none and GVariant::from_glib_none take a
\* reference with ref_sink (a floating reference is sunk, otherwise the count is
\* incremented); Boxed::from_glib_none copies when the type is known and keeps
\* the pointer, unowned, when it is not.  Owned: from_glib_full keeps the
\* pointer; a floating GObject is sunk first.
from_cif_value_object(kind, is_borrowed, is_null, floating, gtype) ==
    IF is_null THEN [value |-> "null", refs |-> 0, sunk |-> FALSE, copies |-> 0, is_owned |-> FALSE]
    ELSE IF kind = "boxed"
         THEN IF is_borrowed
              THEN [value |-> "object", refs |-> 0, sunk |-> FALSE,
                    copies |-> IF gtype THEN 1 ELSE 0, is_owned |-> gtype]
              ELSE [value |-> "object", refs |-> 0, sunk |-> FALSE, copies |-> 0,
                    is_owned |-> TRUE]
    ELSE IF is_borrowed
         THEN [value |-> "object", refs |-> IF floating THEN 0 ELSE 1, sunk |-> floating,
               copies |-> 0, is_owned |-> TRUE]
    ELSE [value |-> "object", refs |-> 0, sunk |-> kind = "gobject" /\ floating,
          copies |-> 0, is_owned |-> TRUE]

\* A returned pointer of object, boxed or variant type is drawn and converted;
\* a pointer that is not null is registered with ObjectId::new and the dynamic
\* value holds the new identity.
object_from_native ==
    /\ conv.phase = "idle"
    /\ \E kind \in ObjectKinds, is_borrowed \in BOOLEAN, is_null \in BOOLEAN,
          floating \in BOOLEAN, gtype \in BOOLEAN, a \in Addrs :
         /\ kind # "boxed" => gtype
         /\ kind = "boxed" => ~floating
         /\ is_null => a = 1
         /\ conv' = [phase |-> "object_ret", kind |-> kind, is_borrowed |-> is_borrowed,
                     is_null |-> is_null, floating |-> floating, gtype |-> gtype,
                     out |-> from_cif_value_object(kind, is_borrowed, is_null, floating, gtype),
                     id |-> IF is_null THEN 0 ELSE next_object_id]
         /\ register_each(IF is_null THEN <<>> ELSE <<a>>)
    /\ UNCHANGED <<dispatch, ffi_source>>

\* -------------------------------------------------------------------------
\* handle_call step by step: conversion of the arguments, symbol lookup, native
\* call, read-back of the out-parameters
\* -------------------------------------------------------------------------
InvokeArgs ==
    [type : {[k |-> "int", of |-> "none", trampoline |-> "none"],
             [k |-> "null", of |-> "none", trampoline |-> "none"]}
                \cup [k : {"ref"}, of : {"gobject", "boxed", "int", "float", "boolean"},
                      trampoline : {"none"}],
     value : {[tag |-> "number", of |-> "none", q |-> "plain"],
              [tag |-> "null", of |-> "none", q |-> "plain"]}
                \cup [tag : {"ref"}, of : {"object", "null", "number", "boolean"},
                      q : {"plain"}],
     optional : {FALSE}]

ArgLists == UNION {[1..n -> InvokeArgs] : n \in 1..MaxArgs}

\* The cif::Value variant TryFrom<Arg> produces for an argument it accepts.
cif_variant(a) ==
    CASE a.type.k = "int" -> "U32"
      [] a.type.k = "null" -> "Ptr"
      [] a.type.k = "ref" ->
            IF a.value.tag # "ref" THEN "Ptr"
            ELSE IF a.type.of \in {"gobject", "boxed"} /\ a.value.of = "object" THEN "Ptr"
            ELSE "OwnedPtr"

\* What the native function can leave in the out-storage of an argument.
OutStorage(a) ==
    IF a.type.k = "ref" /\ a.type.of \in {"gobject", "boxed"}
    THEN {[tag |-> "null"], [tag |-> "object"]}
    ELSE {[tag |-> "number"]}

\* Value::from_cif_value(&cif_args[i], &arg.type_) for an argument whose value
\* is a Ref: the Null arm, and the Ref arm (which needs an OwnedPtr and an
\* object, boxed, integer or float inner type).
from_cif_value_ref(a, stored) ==
    CASE a.type.k = "null" -> [tag |-> "null"]
      [] a.type.k = "ref" ->
            IF cif_variant(a) # "OwnedPtr" THEN ValueError
            ELSE IF a.type.of \in {"gobject", "boxed", "int", "float"} THEN stored
            ELSE ValueError
      [] OTHER -> ValueError

\* Variant: no out-parameter is treated as caller-allocated.
caller_allocates_never(a) == FALSE

\* `if matches!(&*ref.value, Value::Object(_)) { continue; }` for Ref<Boxed> and
\* Ref<GObject>: the caller allocated the memory.
caller_allocates(a) ==
    /\ a.type.k = "ref"
    /\ a.type.of \in {"gobject", "boxed"}
    /\ a.value.of = "object"

\* Variant: the updates are pushed in front of the list.
RECURSIVE ref_updates_reversed(_, _, _)
ref_updates_reversed(args, storage, i) ==
    IF i > Len(args) THEN <<>>
    ELSE IF args[i].value.tag = "ref" /\ ~caller_allocates(args[i])
         THEN IF from_cif_value_ref(args[i], storage[i]) = ValueError THEN <<>>
              ELSE Append(ref_updates_reversed(args, storage, i + 1),
                          [arg |-> i, value |-> from_cif_value_ref(args[i], storage[i])])
    ELSE ref_updates_reversed(args, storage, i + 1)

\* The loop over args.iter().enumerate() that fills ref_updates: one entry is
\* pushed per out-parameter read back, and the `?` of a read-back that fails
\* leaves the loop, so that no later argument is read.
RECURSIVE ref_updates(_, _, _)
ref_updates(args, storage, i) ==
    IF i > Len(args) THEN <<>>
    ELSE IF args[i].value.tag = "ref" /\ ~caller_allocates(args[i])
         THEN IF from_cif_value_ref(args[i], storage[i]) = ValueError THEN <<>>
              ELSE <<[arg |-> i, value |-> from_cif_value_ref(args[i], storage[i])]>>
                       \o ref_updates(args, storage, i + 1)
    ELSE ref_updates(args, storage, i + 1)

\* The loop returns at the `?` of line 238: the read-back of one of the
\* out-parameters fails.
ref_updates_fail(args, storage) ==
    \E i \in 1..Len(args) :
        /\ args[i].value.tag = "ref"
        /\ ~caller_allocates(args[i])
        /\ from_cif_value_ref(args[i], storage[i]) = ValueError

\* What the native function returns, as Value::from_cif_value(&result,
\* &result_type) takes it: a value that registers nothing (void, number,
\* boolean, string, null pointer), a pointer of object, boxed or variant type
\* that is not null, a list or array of MaxListItems such pointers, or a string
\* that is not UTF-8 (`c_str.to_str()?`).
NativeResults == {"value", "object", "objects", "bad_utf8"}

\* The objects the conversion of the result registers: one ObjectId::new per
\* object pointer, one per item of a list or array of objects.
ResultObjects(ret) ==
    CASE ret = "object" -> 1
      [] ret = "objects" -> MaxListItems
      [] OTHER -> 0

\* The objects the read-back loop registers: the out-parameters read back
\* that hold an object.
RECURSIVE read_back_objects(_, _)
read_back_objects(u, j) ==
    IF j > Len(u) THEN 0
    ELSE (IF u[j].value.tag = "object" THEN 1 ELSE 0) + read_back_objects(u, j + 1)

\* handle_call is entered with an argument list; the library may or may not
\* load and the symbol may or may not exist.
invoke_begin ==
    /\ conv.phase = "idle"
    /\ \E args \in ArgLists, library \in BOOLEAN, symbol \in BOOLEAN :
         conv' = [phase |-> "invoke", pc |-> "marshal", args |-> args,
                  library |-> library, symbol |-> symbol, log |-> <<>>,
                  storage |-> <<>>, updates |-> <<>>, ret |-> "none",
                  registered |-> <<>>]
    /\ UNCHANGED <<dispatch, registry, ffi_source>>

\* call.rs 125-129: every argument is converted; the first failure returns.
invoke_marshal ==
    /\ conv.phase = "invoke" /\ conv.pc = "marshal"
    /\ conv' = [conv EXCEPT
                  !.log = Append(@, "marshal"),
                  !.pc = IF \A i \in 1..Len(conv.args) :
                                 Value_try_from_arg(conv.args[i]) # "error"
                         THEN "resolve" ELSE "error"]
    /\ UNCHANGED <<dispatch, registry, ffi_source>>

\* call.rs 152-160: state.get_library(..)? then library.get(symbol)?.
invoke_resolve ==
    /\ conv.phase = "invoke" /\ conv.pc = "resolve"
    /\ conv' = [conv EXCEPT
                  !.log = IF conv.library THEN @ \o <<"library", "symbol">>
                          ELSE Append(@, "library"),
                  !.pc = IF conv.library /\ conv.symbol THEN "call" ELSE "error"]
    /\ UNCHANGED <<dispatch, registry, ffi_source>>

\* call.rs 162-214, `match result_type`: an unsupported result type returns an
\* error and Type::Null makes no call, the out-storage staying as the
\* conversion initialised it; otherwise cif.call: the native function fills the
\* out-storage and returns its result.  The objects it hands back fit the
\* registry's bound.
invoke_call ==
    /\ conv.phase = "invoke" /\ conv.pc = "call"
    /\ \/ conv' = [conv EXCEPT !.pc = "error"]
       \/ conv' = [conv EXCEPT
                     !.pc = "read_back",
                     !.ret = "value",
                     !.storage = [i \in 1..Len(conv.args) |->
                                    IF [tag |-> "null"] \in OutStorage(conv.args[i])
                                    THEN [tag |-> "null"] ELSE [tag |-> "number"]]]
       \/ \E storage \in [1..Len(conv.args) -> {[tag |-> "null"], [tag |-> "object"], [tag |-> "number"]}],
             ret \in NativeResults :
            /\ \A i \in 1..Len(conv.args) : storage[i] \in OutStorage(conv.args[i])
            /\ next_object_id + read_back_objects(ref_updates(conv.args, storage, 1), 1)
                   + (IF ref_updates_fail(conv.args, storage) THEN 0
                      ELSE ResultObjects(ret)) <= MaxObjects + 1
            /\ conv' = [conv EXCEPT !.log = Append(@, "call"), !.pc = "read_back",
                                    !.storage = storage, !.ret = ret]
    /\ UNCHANGED <<dispatch, registry, ffi_source>>

\* call.rs 216-242: the out-parameters are read back in argument order, each
\* object read is registered, and a failed read-back returns the error at
\* once: the later out-parameters are not read and the list is dropped with
\* the Err, the objects registered before it staying registered.  Then the
\* result is converted (line 242), which registers an object result, every
\* object of a list or array result, and returns the error of a failed
\* conversion; the list is returned with an Ok result only.
invoke_read_back ==
    /\ conv.phase = "invoke" /\ conv.pc = "read_back"
    /\ LET u == ref_updates(conv.args, conv.storage, 1)
           failed == ref_updates_fail(conv.args, conv.storage)
           k == read_back_objects(u, 1)
                  + (IF ~failed THEN ResultObjects(conv.ret) ELSE 0)
       IN \E addrs \in [1..k -> Addrs] :
            /\ conv' = [conv EXCEPT
                          !.log = Append(@, "read_back"),
                          !.updates = IF failed \/ conv.ret = "bad_utf8" THEN <<>> ELSE u,
                          !.registered = [j \in 1..k |-> next_object_id + j - 1],
                          !.pc = IF failed \/ conv.ret = "bad_utf8"
                                 THEN "error" ELSE "done"]
            /\ register_each(addrs)
    /\ UNCHANGED <<dispatch, ffi_source>>

\* -------------------------------------------------------------------------
\* handle_batch_calls: one handle_call per descriptor, in order
\* -------------------------------------------------------------------------
MaxCalls == 2

\* What handle_call does with a descriptor: it succeeds, an argument fails to
\* convert, the library or symbol is not found, the native function runs and
\* the read-back of an out-parameter fails (call.rs 238), or the conversion of
\* an argument panics (a Ref whose inner value is a callback, cif.rs 322).
CallOutcomes == {"ok", "bad_arg", "bad_symbol", "bad_read_back", "panic"}

\* batch_call with a non-empty array: the descriptors reach handle_batch_calls.
batch_begin ==
    /\ conv.phase = "idle"
    /\ \E n \in 1..MaxCalls : \E calls \in [1..n -> CallOutcomes] :
         conv' = [phase |-> "batch", pc |-> "run", calls |-> calls, next |-> 1,
                  executed |-> <<>>]
    /\ UNCHANGED <<dispatch, registry, ffi_source>>

\* One iteration of `for descriptor in descriptors { handle_call(..)?; }`, and
\* the `Ok(())` after the last one.  A handle_call that reaches the native
\* function reads the out-parameters back and converts the result, registering
\* every object it finds (the batch discards the values, not the
\* registrations); one whose read-back fails has registered the objects read
\* before the failing out-parameter.  A panic unwinds out of the loop.
batch_step ==
    /\ conv.phase = "batch" /\ conv.pc = "run"
    /\ IF conv.next > Len(conv.calls)
       THEN /\ conv' = [conv EXCEPT !.pc = "ok"]
            /\ UNCHANGED registry
       ELSE IF conv.calls[conv.next] = "ok"
            THEN /\ conv' = [conv EXCEPT !.executed = Append(@, conv.next), !.next = @ + 1]
                 /\ \E addrs \in PointerLists(MaxArgs) : register_each(addrs)
            ELSE IF conv.calls[conv.next] = "bad_read_back"
            THEN /\ conv' = [conv EXCEPT !.executed = Append(@, conv.next), !.pc = "error"]
                 /\ \E addrs \in PointerLists(MaxArgs - 1) : register_each(addrs)
            ELSE IF conv.calls[conv.next] = "panic"
            THEN /\ conv' = [conv EXCEPT !.pc = "panic"]
                 /\ UNCHANGED registry
            ELSE /\ conv' = [conv EXCEPT !.pc = "error"]
                 /\ UNCHANGED registry
    /\ UNCHANGED <<dispatch, ffi_source>>


\* -------------------------------------------------------------------------
\* Callback arguments: native type slots and native values.
\* -------------------------------------------------------------------------
\* handle_call, the loop building arg_types: the native type slots declared for
\* a callback argument of the given trampoline kind.
arg_type_slots(trampoline) ==
    IF trampoline # "closure"
    THEN <<"pointer", "pointer">> \o (IF trampoline = "drawFunc" THEN <<"pointer">> ELSE <<>>)
    ELSE <<"pointer">>

\* handle_call, the loop building ffi_args: the native values passed for one
\* converted argument.
ffi_arg_values(cif_arg, data_first) ==
    IF cif_arg.v = "TrampolineCallback"
    THEN (IF data_first THEN <<"closure", "trampoline">> ELSE <<"trampoline", "closure">>)
         \o (IF cif_arg.destroy_ptr THEN <<"destroy">> ELSE <<>>)
    ELSE <<cif_arg.ptr>>

\* A callback argument is drawn; its type slots are declared, it is converted
\* and its native values are collected.
callback_to_native ==
    /\ conv.phase = "idle"
    /\ \E trampoline \in TrampolineKinds, value \in {"callback", "null", "other"},
          optional \in BOOLEAN, data_first \in BOOLEAN :
         LET cif_arg == try_from_callback(trampoline, value, optional) IN
         conv' = [phase |-> "callback_arg", trampoline |-> trampoline, value |-> value,
                  optional |-> optional, data_first |-> data_first,
                  slots |-> arg_type_slots(trampoline),
                  cif_arg |-> cif_arg,
                  values |-> IF cif_arg.v = "error" THEN <<>>
                             ELSE ffi_arg_values(cif_arg, data_first)]
    /\ UNCHANGED <<dispatch, registry, ffi_source>>


\* -------------------------------------------------------------------------
\* Trampoline round trip
\* -------------------------------------------------------------------------
\* Value::try_from_callback has built the closure of a callback argument: its
\* trampoline kind and declared return type are fixed.  Native code invokes it
\* later, from inside a call (task_fire_callback) or from the main loop
\* (signal_fire); the closure then runs invoke_and_wait_for_js_result step by
\* step: is_js_waiting, queue or send_via_channel, and the wait loop, while
\* the scripting thread runs the callback (process_pending or channel_run,
\* callback_return) or leaves its event loop (runtime_exit).
trampoline_built ==
    /\ conv.phase = "idle"
    /\ next_cb = 1
    /\ next_op = 1
    /\ \E trampoline \in TrampolineKinds, return_type \in ReturnTypes :
         conv' = [phase |-> "trampoline", pc |-> "built", trampoline |-> trampoline,
                  return_type |-> return_type, cbid |-> 0, outcome |-> [k |-> "none"],
                  result |-> [panic |-> FALSE]]
    /\ UNCHANGED <<dispatch, registry, ffi_source>>


\* -------------------------------------------------------------------------
\* GtkThreadState::get_library: the library cache and the alternatives.
\* -------------------------------------------------------------------------
MaxAlternatives == 2
MaxLookups == 2
LibNames == {"liba", "libb"}

\* A library name as passed by the caller, split at the commas.
LibraryNames ==
    UNION {[1..n -> LibNames] : n \in 1..MaxAlternatives}

\* Library::open on each alternative from position i on: the alternatives
\* opened, the library loaded if one opened, and the error kept (last_error).
RECURSIVE open_alternatives(_, _, _, _, _)
open_alternatives(lib_names, loadable, i, opened, last_error) ==
    IF i > Len(lib_names)
    THEN [ok |-> FALSE, opened |-> opened, last_error |-> last_error]
    ELSE IF lib_names[i] \in loadable
         THEN [ok |-> TRUE, opened |-> Append(opened, lib_names[i]), lib |-> lib_names[i]]
         ELSE open_alternatives(lib_names, loadable, i + 1,
                                Append(opened, lib_names[i]), <<lib_names[i]>>)

\* Variant: the alternatives are tried from the right.
get_library_from_right(libraries, loadable, name) ==
    LET rev == [i \in 1..Len(name) |-> name[Len(name) + 1 - i]]
        r == open_alternatives(rev, loadable, 1, <<>>, <<>>) IN
    IF name \in DOMAIN libraries
    THEN [ok |-> TRUE, lib |-> libraries[name], opened |-> <<>>, libraries |-> libraries]
    ELSE IF r.ok
         THEN [ok |-> TRUE, lib |-> r.lib, opened |-> r.opened,
               libraries |-> [n \in DOMAIN libraries \cup {name} |->
                                 IF n = name THEN r.lib ELSE libraries[n]]]
         ELSE [ok |-> FALSE, opened |-> r.opened, libraries |-> libraries,
               error |-> [name |-> name, failures |-> r.last_error]]

\* get_library: an occupied cache entry is returned without opening anything;
\* otherwise the alternatives are opened in order, the first that opens is
\* inserted under the full name, and when none opens the error carries the
\* full name and the error of the last alternative.
get_library(libraries, loadable, name) ==
    LET r == open_alternatives(name, loadable, 1, <<>>, <<>>) IN
    IF name \in DOMAIN libraries
    THEN [ok |-> TRUE, lib |-> libraries[name], opened |-> <<>>, libraries |-> libraries]
    ELSE IF r.ok
         THEN [ok |-> TRUE, lib |-> r.lib, opened |-> r.opened,
               libraries |-> [n \in DOMAIN libraries \cup {name} |->
                                 IF n = name THEN r.lib ELSE libraries[n]]]
         ELSE [ok |-> FALSE, opened |-> r.opened, libraries |-> libraries,
               error |-> [name |-> name, failures |-> r.last_error]]

\* A loop-thread state with an empty library cache; which libraries the
\* loader can open is fixed.
library_begin ==
    /\ conv.phase = "idle"
    /\ \E loadable \in SUBSET LibNames :
         conv' = [phase |-> "library", loadable |-> loadable, libraries |-> <<>>,
                  lookups |-> 0, name |-> <<>>, cached |-> FALSE,
                  found |-> [ok |-> TRUE, opened |-> <<>>]]
    /\ UNCHANGED <<dispatch, registry, ffi_source>>

\* One call of get_library.
library_lookup ==
    /\ conv.phase = "library"
    /\ conv.lookups < MaxLookups
    /\ \E name \in LibraryNames :
         LET r == get_library(conv.libraries, conv.loadable, name) IN
         conv' = [conv EXCEPT !.libraries = r.libraries,
                              !.lookups = @ + 1,
                              !.name = name,
                              !.cached = name \in DOMAIN conv.libraries,
                              !.found = [f \in DOMAIN r \ {"libraries"} |-> r[f]]]
    /\ UNCHANGED <<dispatch, registry, ffi_source>>


\* -------------------------------------------------------------------------
\* GtkThreadState::with and the finalizer's removal task.
\* -------------------------------------------------------------------------
\* GtkThreadState::with: `STATE.with(|state| f(&mut state.borrow_mut()))`.  One
\* more invocation is active; borrow_mut on a RefCell that is already borrowed
\* panics.
GtkThreadState_with(c) ==
    [c EXCEPT !.active = @ + 1,
              !.max_active = IF c.active + 1 > @ THEN c.active + 1 ELSE @,
              !.panicked = c.active > 0]

\* The loop thread holds one registered object.  last_ref: the registry entry
\* holds the last reference to the native object; handler: a scripting handler
\* is connected to a signal the object emits when it is disposed; arg_object:
\* that handler's closure converts an object argument; queued: a task that
\* enters GtkThreadState::with (a call, a read, another removal) is in the
\* queue while the closure waits for the handler's result.
finalizer_task_begin ==
    /\ conv.phase = "idle"
    /\ \E last_ref \in BOOLEAN, handler \in BOOLEAN, arg_object \in BOOLEAN,
          queued \in BOOLEAN :
         conv' = [phase |-> "access", last_ref |-> last_ref, handler |-> handler,
                  arg_object |-> arg_object, queued |-> queued, map |-> {1}, active |-> 0,
                  max_active |-> 0, panicked |-> FALSE, pc |-> "task"]
    /\ UNCHANGED <<dispatch, registry, ffi_source>>

\* The task scheduled by Finalize for ObjectId enters GtkThreadState::with.
finalizer_with ==
    /\ conv.phase = "access"
    /\ conv.pc = "task"
    /\ conv' = [GtkThreadState_with(conv) EXCEPT !.pc = "remove"]
    /\ UNCHANGED <<dispatch, registry, ffi_source>>

\* `state.object_map.remove(&self.0);` inside the closure: the removed Object is
\* dropped at the end of the statement, before the closure returns.  Dropping
\* the last reference disposes the native object, which emits its signals.
finalizer_remove ==
    /\ conv.phase = "access"
    /\ conv.pc = "remove"
    /\ conv' = [conv EXCEPT !.map = {},
                            !.pc = IF conv.last_ref /\ conv.handler THEN "signal" ELSE "return"]
    /\ UNCHANGED <<dispatch, registry, ffi_source>>

\* The closure connected to the signal runs on the loop thread:
\* convert_glib_args -> Value::from_glib_value -> ObjectId::new for an object
\* argument, which enters GtkThreadState::with; without an object argument
\* the closure goes on to invoke_and_wait_for_js_result and waits.
dispose_signal_closure ==
    /\ conv.phase = "access"
    /\ conv.pc = "signal"
    /\ conv' = IF conv.arg_object
               THEN [GtkThreadState_with(conv) EXCEPT !.pc = "new"]
               ELSE [conv EXCEPT !.pc = "wait"]
    /\ UNCHANGED <<dispatch, registry, ffi_source>>

\* wait_for_js_result inside that closure, Empty arm:
\* gtk_dispatch::dispatch_pending() runs the queued task, which enters
\* GtkThreadState::with while the removal's borrow is still held.
dispose_closure_dispatch_pending ==
    /\ conv.phase = "access"
    /\ conv.pc = "wait"
    /\ conv.queued
    /\ conv' = [GtkThreadState_with(conv) EXCEPT !.pc = "task_with"]
    /\ UNCHANGED <<dispatch, registry, ffi_source>>

\* wait_for_js_result inside that closure, Ok arm: the handler's result has
\* arrived and the closure returns into the removal.
dispose_closure_return ==
    /\ conv.phase = "access"
    /\ conv.pc = "wait"
    /\ conv' = [conv EXCEPT !.pc = "return"]
    /\ UNCHANGED <<dispatch, registry, ffi_source>>

\* The closure passed to GtkThreadState::with by the finalizer task returns.
finalizer_with_return ==
    /\ conv.phase = "access"
    /\ conv.pc = "return"
    /\ conv' = [conv EXCEPT !.active = @ - 1, !.pc = "done"]
    /\ UNCHANGED <<dispatch, registry, ffi_source>>


\* -------------------------------------------------------------------------
\* handle_call argument by argument: what each converted argument owns and
\* when it is dropped.
\* -------------------------------------------------------------------------
\* Argument kinds: what TryFrom<Arg> builds for them.  string, int_array,
\* string_array, ref_int, ref_bool and ref_null_object build an OwnedPtr (a
\* CString, a Vec of numbers, a Vec of pointers with its CStrings, a boxed out
\* slot); gobject_full and boxed_full are non-borrowed object arguments;
\* gobject_none is a borrowed one; bad is a value that does not match its type.
FrameArgKinds ==
    {"int", "string", "int_array", "string_array", "ref_int", "ref_bool",
     "ref_null_object", "gobject_full", "gobject_none", "boxed_full", "bad"}

FrameArgLists == UNION {[1..n -> FrameArgKinds] : n \in 1..MaxArgs}

\* TryFrom<Arg> for cif::Value on one argument: whether it converts, whether the
\* cif value is an OwnedPtr, and the references and copies taken.
try_from_frame_arg(kind) ==
    LET obj == CASE kind = "gobject_full" -> try_from_object_arg("gobject", FALSE, "live", TRUE)
                 [] kind = "gobject_none" -> try_from_object_arg("gobject", TRUE, "live", TRUE)
                 [] kind = "boxed_full"   -> try_from_object_arg("boxed", FALSE, "live", TRUE)
                 [] OTHER                 -> [ptr |-> "none", refs |-> 0, copies |-> 0]
    IN [ok |-> kind # "bad",
        owned |-> kind \in {"string", "int_array", "string_array", "ref_int", "ref_bool",
                            "ref_null_object"},
        refs |-> obj.refs, copies |-> obj.copies]

\* Out-parameters whose read-back (Value::from_cif_value, Ref arm) fails.
read_back_fails(kind) == kind = "ref_bool"

IsOutParam(kind) == kind \in {"ref_int", "ref_bool", "ref_null_object"}

frame_begin ==
    /\ conv.phase = "idle"
    /\ \E args \in FrameArgLists, library \in BOOLEAN, symbol \in BOOLEAN :
         conv' = [phase |-> "frame", pc |-> "marshal", args |-> args, library |-> library,
                  symbol |-> symbol, n |-> 0, owned |-> {}, released |-> {},
                  refs |-> 0, copies |-> 0, in_call |-> FALSE, called |-> FALSE,
                  no_call |-> FALSE, read |-> {}]
    /\ UNCHANGED <<dispatch, registry, ffi_source>>

\* `.map(TryInto::<cif::Value>::try_into).collect::<Result<Vec<_>>>()?`: the
\* arguments are converted in order; the first failure drops the values
\* converted so far and returns the error.
frame_marshal_arg ==
    /\ conv.phase = "frame" /\ conv.pc = "marshal"
    /\ LET i == conv.n + 1 IN
       IF i > Len(conv.args) THEN conv' = [conv EXCEPT !.pc = "resolve"]
       ELSE LET r == try_from_frame_arg(conv.args[i]) IN
            IF ~r.ok
            THEN conv' = [conv EXCEPT !.pc = "failed", !.released = conv.owned, !.owned = {}]
            ELSE conv' = [conv EXCEPT !.n = i,
                                      !.owned = IF r.owned THEN @ \cup {i} ELSE @,
                                      !.refs = @ + r.refs,
                                      !.copies = @ + r.copies]
    /\ UNCHANGED <<dispatch, registry, ffi_source>>

\* `state.get_library(..)?` and `library.get(symbol)?`, then `match
\* result_type`: an error (lookup, unsupported result type) returns and drops
\* cif_args; Type::Null goes on to the read-back without a call.
frame_resolve ==
    /\ conv.phase = "frame" /\ conv.pc = "resolve"
    /\ \E result_type \in ResultTypes :
         conv' = IF conv.library /\ conv.symbol /\ result_type = "callable"
                 THEN [conv EXCEPT !.pc = "call"]
                 ELSE IF conv.library /\ conv.symbol /\ result_type = "null"
                 THEN [conv EXCEPT !.pc = "read_back", !.no_call = TRUE]
                 ELSE [conv EXCEPT !.pc = "failed", !.released = conv.owned, !.owned = {}]
    /\ UNCHANGED <<dispatch, registry, ffi_source>>

\* Variant: the converted arguments are dropped when the native call starts.
frame_call_enter_dropping_args ==
    /\ conv.phase = "frame" /\ conv.pc = "call"
    /\ conv' = [conv EXCEPT !.pc = "in_call", !.in_call = TRUE,
                            !.released = conv.owned, !.owned = {}]
    /\ UNCHANGED <<dispatch, registry, ffi_source>>

\* cif.call(symbol_ptr, &ffi_args): the native function is running.
frame_call_enter ==
    /\ conv.phase = "frame" /\ conv.pc = "call"
    /\ conv' = [conv EXCEPT !.pc = "in_call", !.in_call = TRUE]
    /\ UNCHANGED <<dispatch, registry, ffi_source>>

\* The native function returns.
frame_call_return ==
    /\ conv.phase = "frame" /\ conv.pc = "in_call"
    /\ conv' = [conv EXCEPT !.pc = "read_back", !.in_call = FALSE, !.called = TRUE]
    /\ UNCHANGED <<dispatch, registry, ffi_source>>

\* The ref_updates loop: the next out-parameter is read back from its storage
\* (an object out-parameter the native function filled is registered); a
\* failing read-back returns the error; after the last one the result is
\* converted, which registers the objects of the result or fails, and
\* handle_call returns.  Returning drops cif_args.  Without a call (Type::Null)
\* the storage holds what the conversion put there and the result is Null.
frame_read_back ==
    /\ conv.phase = "frame" /\ conv.pc = "read_back"
    /\ LET rest == {i \in 1..Len(conv.args) : IsOutParam(conv.args[i]) /\ i \notin conv.read} IN
       IF rest = {}
       THEN \E ret \in IF conv.called THEN NativeResults ELSE {"value"} :
              /\ next_object_id + ResultObjects(ret) <= MaxObjects + 1
              /\ conv' = [conv EXCEPT !.pc = IF ret = "bad_utf8" THEN "read_failed"
                                              ELSE "returned",
                                      !.released = conv.owned, !.owned = {}]
              /\ \E addrs \in [1..ResultObjects(ret) -> Addrs] : register_each(addrs)
       ELSE LET i == CHOOSE j \in rest : \A k \in rest : j <= k IN
            IF read_back_fails(conv.args[i])
            THEN /\ conv' = [conv EXCEPT !.pc = "read_failed", !.released = conv.owned,
                                         !.owned = {}]
                 /\ UNCHANGED registry
            ELSE /\ conv' = [conv EXCEPT !.read = @ \cup {i}]
                 /\ \E addrs \in PointerLists(IF conv.called
                                                  /\ conv.args[i] = "ref_null_object"
                                               THEN 1 ELSE 0) :
                      register_each(addrs)
    /\ UNCHANGED <<dispatch, ffi_source>>

MarshalNext ==
    \/ marshal_arg
    \/ handle_call_error
    \/ handle_call_panic
    \/ handle_call_native
    \/ scalar_to_native
    \/ scalar_from_native
    \/ object_to_native
    \/ object_from_native
    \/ invoke_begin
    \/ invoke_marshal
    \/ invoke_resolve
    \/ invoke_call
    \/ invoke_read_back
    \/ batch_begin
    \/ batch_step
    \/ callback_to_native
    \/ trampoline_built
    \/ (call /\ TrampolineBuilt /\ next_op = 1)
    \/ schedule_load_stopped
    \/ schedule_push
    \/ schedule_cas
    \/ process_pending
    \/ wait_for_result_try_recv
    \/ callback_return
    \/ channel_run
    \/ runtime_exit
    \/ dispatch_batch_begin
    \/ dispatch_batch_pop
    \/ dispatch_batch_rearm
    \/ task_finish
    \/ (task_fire_callback /\ TrampolineBuilt)
    \/ (signal_fire /\ TrampolineBuilt)
    \/ invoke_is_js_waiting
    \/ queue
    \/ send_via_channel
    \/ wait_for_js_result_try_recv
    \/ dispatch_pending_pop
    \/ dispatch_pending_store
    \/ dispatch_pending_rearm
    \/ library_begin
    \/ library_lookup
    \/ finalizer_task_begin
    \/ finalizer_with
    \/ finalizer_remove
    \/ dispose_signal_closure
    \/ dispose_closure_dispatch_pending
    \/ dispose_closure_return
    \/ finalizer_with_return
    \/ frame_begin
    \/ frame_marshal_arg
    \/ frame_resolve
    \/ frame_call_enter
    \/ frame_call_return
    \/ frame_read_back

MarshalSpec == Init /\ [][MarshalNext]_vars

\* -------------------------------------------------------------------------
\* C20: for every scalar type descriptor T and every value V in T's range,
\* from_native(to_native(V, T), T) = V.
\* -------------------------------------------------------------------------
\* V is a value of T: an integer within the bounds of the width and signedness,
\* a number with a 24-bit mantissa for f32, any number for f64, a boolean.
InRange(v, t) ==
    CASE t.k = "boolean" -> v.tag = "boolean"
      [] t.k = "float"   ->
            /\ v.tag = "number"
            /\ t.size = 32 => (v.num.f = "pow" /\ BitLen(v.num.m) <= F32Mantissa)
      [] t.k = "int"     ->
            /\ v.tag = "number"
            /\ IsIntegral(v.num)
            /\ IF t.signed
               THEN \/ Bits(v.num) <= t.size - 1
                    \/ v.num = [f |-> "pow", s |-> -1, m |-> 1, e |-> t.size - 1]
               ELSE v.num = Zero \/ (v.num.s = 1 /\ Bits(v.num) <= t.size)

C20_ScalarRoundTrip ==
    (conv.phase = "back" /\ InRange(conv.value, conv.type)) => conv.out = conv.value

\* Round trips at the edges: the largest u64-range power, the largest u32, a
\* 24-bit mantissa through f32, and a boolean.
C20_Witness ==
    /\ conv.phase = "back"
    /\ InRange(conv.value, conv.type)
    /\ conv.out = conv.value
    /\ conv.type.k = "float" /\ conv.type.size = 32
    /\ conv.value.num.m = 2^F32Mantissa - 1

\* Outside the range the conversion loses the value: truncation, saturation,
\* rounding.
C20_LossyOutsideRange ==
    /\ conv.phase = "back"
    /\ ~InRange(conv.value, conv.type)
    /\ conv.out # conv.value


\* -------------------------------------------------------------------------
\* C21: a number outside the range of the target integer type is marshaled
\* without an error, and the native value keeps the low-order bits of the
\* number at the target width.
\* -------------------------------------------------------------------------
\* Bit positions set in a mantissa.
BitsOf(m) == {i \in 0..30 : (m \div (2^i)) % 2 = 1}

\* Two's complement pattern, at width n, of an integral number: the set of the
\* positions of its one bits.
MagnitudeBits(v, n) ==
    IF v.f = "ones" THEN {i \in 0..(n - 1) : i < v.w}
    ELSE {i \in 0..(n - 1) : i - v.e \in BitsOf(v.m)}

Lowest(bits) == CHOOSE i \in bits : \A j \in bits : i <= j

LowBits(v, n) ==
    LET mag == MagnitudeBits(v, n) IN
    IF v.s = 1 \/ mag = {} THEN mag
    ELSE {Lowest(mag)} \cup {i \in 0..(n - 1) : i > Lowest(mag) /\ i \notin mag}

C21_TruncatingCast ==
    (/\ conv.phase = "native"
     /\ conv.type.k = "int"
     /\ conv.value.tag = "number")
    => /\ conv.native # CifError
       /\ LowBits(conv.native.v, conv.type.size)
              = LowBits(Trunc(conv.value.num), conv.type.size)

\* An out-of-range number has been marshaled to the largest value of the type
\* although its low-order bits are zero.
C21_Saturated ==
    /\ conv.phase = "native"
    /\ conv.type = [k |-> "int", size |-> 32, signed |-> FALSE]
    /\ conv.value = [tag |-> "number", num |-> [f |-> "pow", s |-> 1, m |-> 1, e |-> 32]]
    /\ conv.native = [ty |-> "U32", v |-> [f |-> "ones", s |-> 1, w |-> 32]]

\* The conversion never fails, and inside the range it is exact.
C21_NeverFailsExactInRange ==
    (/\ conv.phase = "native"
     /\ conv.type.k = "int"
     /\ conv.value.tag = "number")
    => /\ conv.native # CifError
       /\ InRange(conv.value, conv.type) => conv.native.v = conv.value.num


\* -------------------------------------------------------------------------
\* C22: a non-null object or boxed argument with borrowed = false gets one
\* g_object_ref, respectively one g_boxed_copy; with borrowed = true, or for a
\* null value, nothing is referenced or copied.
\* -------------------------------------------------------------------------
C22_TransferFullRefsOnce ==
    conv.phase = "object_arg" /\ conv.native.ptr # "error" =>
        IF ~conv.is_borrowed /\ conv.value = "live"
        THEN IF conv.kind = "gobject"
             THEN conv.native.refs = 1 /\ conv.native.copies = 0
             ELSE conv.native.copies = 1 /\ conv.native.refs = 0
        ELSE conv.native.refs = 0 /\ conv.native.copies = 0

\* A boxed argument with borrowed = false went to the call as the registered
\* pointer itself.
C22_BoxedNotCopied ==
    /\ conv.phase = "object_arg"
    /\ conv.kind = "boxed" /\ ~conv.is_borrowed /\ conv.value = "live"
    /\ conv.native = [ptr |-> "registered", refs |-> 0, copies |-> 0]

\* The same with the type of every boxed argument known to the type system.
C22_HoldsForKnownTypes ==
    conv.phase = "object_arg" /\ conv.native.ptr # "error" /\ conv.gtype =>
        IF ~conv.is_borrowed /\ conv.value = "live"
        THEN IF conv.kind = "gobject"
             THEN conv.native.refs = 1 /\ conv.native.copies = 0
             ELSE conv.native.copies = 1 /\ conv.native.refs = 0
        ELSE conv.native.refs = 0 /\ conv.native.copies = 0

\* -------------------------------------------------------------------------
\* C23: a non-null returned pointer of object, boxed or variant type is taken
\* as it is when the descriptor says owned, and is referenced or copied when it
\* says borrowed, so that the registry entry holds a reference or copy of its
\* own.
\* -------------------------------------------------------------------------
C23_ReturnOwnership ==
    conv.phase = "object_ret" /\ ~conv.is_null =>
        /\ conv.out.value = "object"
        /\ conv.out.is_owned
        /\ IF conv.is_borrowed
           THEN IF conv.kind = "boxed"
                THEN conv.out.copies = 1
                ELSE conv.out.refs = 1 \/ conv.out.sunk
           ELSE conv.out.refs = 0 /\ conv.out.copies = 0

\* A borrowed boxed pointer has been registered without a copy.
C23_BorrowedBoxedNotCopied ==
    /\ conv.phase = "object_ret"
    /\ conv.kind = "boxed" /\ conv.is_borrowed /\ ~conv.is_null
    /\ conv.out.copies = 0
    /\ ~conv.out.is_owned

\* The same with the type of every boxed pointer known to the type system.
C23_HoldsForKnownTypes ==
    conv.phase = "object_ret" /\ ~conv.is_null /\ conv.gtype =>
        /\ conv.out.value = "object"
        /\ conv.out.is_owned
        /\ IF conv.is_borrowed
           THEN IF conv.kind = "boxed"
                THEN conv.out.copies = 1
                ELSE conv.out.refs = 1 \/ conv.out.sunk
           ELSE conv.out.refs = 0 /\ conv.out.copies = 0


\* -------------------------------------------------------------------------
\* C24: after a successful invoke the list of pending updates has one entry for
\* every argument whose value was an out-parameter wrapper, in argument order,
\* each holding the value read back from that argument's out-storage.
\* -------------------------------------------------------------------------
IsWrapper(a) == a.value.tag = "ref"

IsReadBackWrapper(a) == a.value.tag = "ref" /\ ~caller_allocates(a)

\* The updates are exactly the arguments in idx, in increasing order, each with
\* the value left in its out-storage.
UpdatesFor(idx) ==
    /\ Len(conv.updates) = Cardinality(idx)
    /\ \A j \in 1..Len(conv.updates) :
         /\ conv.updates[j].arg \in idx
         /\ j > 1 => conv.updates[j - 1].arg < conv.updates[j].arg
         /\ conv.updates[j].value =
               IF conv.args[conv.updates[j].arg].type.k = "null" THEN [tag |-> "null"]
               ELSE conv.storage[conv.updates[j].arg]

\* As stated: every wrapper argument has its entry.
C24_UpdatePerWrapper ==
    (conv.phase = "invoke" /\ conv.pc = "done")
        => UpdatesFor({i \in 1..Len(conv.args) : IsWrapper(conv.args[i])})

\* Amended: every wrapper argument has its entry, except a Ref<GObject> or
\* Ref<Boxed> whose wrapper already holds an object (caller-allocated memory,
\* which the native function filled in place).
C24_UpdatePerReadBackWrapper ==
    (conv.phase = "invoke" /\ conv.pc = "done")
        => UpdatesFor({i \in 1..Len(conv.args) : IsReadBackWrapper(conv.args[i])})

\* Two out-parameters have been read back after a successful call.
C24_Witness ==
    /\ conv.phase = "invoke" /\ conv.pc = "done"
    /\ Len(conv.updates) = 2
    /\ conv.updates[1].value # conv.updates[2].value


\* -------------------------------------------------------------------------
\* C25: a batch fails atomically: when a call of the batch fails, the batch
\* reports an error and no native function of the batch has been executed.
\* -------------------------------------------------------------------------
C25_BatchAtomic ==
    (conv.phase = "batch" /\ conv.pc = "error") => conv.executed = <<>>

\* The batch has failed after a native function of it was executed.
C25_FailedAfterExecuting ==
    /\ conv.phase = "batch" /\ conv.pc = "error"
    /\ conv.executed # <<>>

\* The batch reports the error of its first failing call, the calls before it
\* have been executed in order and none after it.
C25_FailsAtFirstError ==
    conv.phase = "batch" =>
        /\ conv.executed = [i \in 1..Len(conv.executed) |-> i]
        /\ \A i \in 1..Len(conv.executed) :
              \/ conv.calls[i] = "ok"
              \/ conv.calls[i] = "bad_read_back" /\ i = Len(conv.executed)
                    /\ conv.pc = "error"
        /\ conv.pc = "error" =>
              \/ conv.calls[conv.next] = "bad_read_back" /\ Len(conv.executed) = conv.next
              \/ conv.calls[conv.next] \in {"bad_arg", "bad_symbol"}
                    /\ Len(conv.executed) = conv.next - 1
        /\ conv.pc = "panic" =>
              /\ conv.calls[conv.next] = "panic"
              /\ Len(conv.executed) = conv.next - 1
        /\ conv.pc = "ok" =>
              /\ Len(conv.executed) = Len(conv.calls)
              /\ \A i \in 1..Len(conv.calls) : conv.calls[i] = "ok"

\* -------------------------------------------------------------------------
\* C26: invoke resolves the library and the symbol before it marshals any
\* argument, marshals every argument before the native call, and reads the
\* out-parameters back only after the call.
\* -------------------------------------------------------------------------
Before(log, x, y) ==
    \A j \in 1..Len(log) : log[j] = y => \E i \in 1..(j - 1) : log[i] = x

C26_StepOrder ==
    conv.phase = "invoke" =>
        /\ Before(conv.log, "library", "marshal")
        /\ Before(conv.log, "symbol", "marshal")
        /\ Before(conv.log, "marshal", "call")
        /\ Before(conv.log, "call", "read_back")

\* The arguments have been marshaled and the library then failed to load.
C26_MarshaledBeforeResolve ==
    /\ conv.phase = "invoke" /\ conv.pc = "error"
    /\ conv.log = <<"marshal", "library">>

\* The rest of the order: marshal, then call, then read-back.
C26_MarshalCallReadBack ==
    conv.phase = "invoke" =>
        /\ Before(conv.log, "marshal", "call")
        /\ Before(conv.log, "symbol", "call")
        /\ Before(conv.log, "symbol", "read_back")
        /\ (\E j \in 1..Len(conv.log) : conv.log[j] = "call")
              => Before(conv.log, "call", "read_back")


\* -------------------------------------------------------------------------
\* C27: for every callback argument that converts, the number of native type
\* slots declared equals the number of native values passed, and a trampoline
\* callback is passed as trampoline pointer then closure pointer (swapped when
\* data-first) with the destroy-notify pointer last; for every trampoline kind
\* and for a null optional callback.
\* -------------------------------------------------------------------------
C27_Converted == conv.phase = "callback_arg" /\ conv.cif_arg.v # "error"

C27_PointerOrder ==
    (C27_Converted /\ conv.cif_arg.v = "TrampolineCallback") =>
        /\ SubSeq(conv.values, 1, 2) =
             (IF conv.data_first THEN <<"closure", "trampoline">>
              ELSE <<"trampoline", "closure">>)
        /\ \A i \in 1..Len(conv.values) :
             conv.values[i] = "destroy" => i = Len(conv.values)

C27_SlotsMatchValues ==
    /\ C27_Converted => Len(conv.slots) = Len(conv.values)
    /\ C27_PointerOrder

\* A null optional callback of a trampoline kind other than the standard
\* closure: one null pointer is passed against two or three declared slots.
C27_NullAgainstTrampolineSlots ==
    /\ C27_Converted
    /\ conv.value = "null"
    /\ conv.trampoline # "closure"
    /\ Len(conv.values) = 1
    /\ Len(conv.slots) >= 2

\* What does hold: counts agree for a present callback of the kinds closure,
\* asyncReady, destroy and drawFunc, and the pointer order is as stated.
C27_HoldsForPresentCallbacks ==
    /\ (C27_Converted /\ conv.value = "callback"
          /\ conv.trampoline \in {"closure", "asyncReady", "destroy", "drawFunc"})
         => Len(conv.slots) = Len(conv.values)
    /\ C27_PointerOrder


\* -------------------------------------------------------------------------
\* C28: when the scripting callback throws, the trampoline hands native code
\* the default of its kind and nothing propagates: false for source-func and
\* for a standard closure returning a boolean, 0 for a comparator and for a
\* standard closure returning an integer, no value for the other kinds.
\* -------------------------------------------------------------------------
C28_Thrown ==
    conv.phase = "trampoline" /\ conv.pc = "returned" /\ conv.outcome.k = "throw"

C28_DefaultFor(trampoline, return_type) ==
    IF trampoline = "sourceFunc" \/ (trampoline = "closure" /\ return_type = "boolean")
    THEN SomeGValue([tag |-> "boolean", b |-> FALSE])
    ELSE IF trampoline = "compareDataFunc" \/ (trampoline = "closure" /\ return_type = "integer")
    THEN SomeGValue([tag |-> "number", num |-> Zero])
    ELSE NoGValue

C28_ThrowGivesDefault ==
    C28_Thrown =>
        /\ ~conv.result.panic
        /\ conv.result.handed = C28_DefaultFor(conv.trampoline, conv.return_type)

C28_ClosureBooleanThrew ==
    /\ C28_Thrown
    /\ conv.trampoline = "closure"
    /\ conv.return_type = "boolean"
    /\ conv.result.handed = SomeGValue([tag |-> "boolean", b |-> FALSE])

\* -------------------------------------------------------------------------
\* C29: if the result channel disconnects while the loop thread waits, the
\* wait is fatal for the standard closure, source-func and compare-func, and is
\* ignored, the loop thread continuing, for destroy and async-ready.
\* -------------------------------------------------------------------------
C29_Disconnected == conv.phase = "trampoline" /\ conv.outcome.k = "disconnect"

C29_FatalOnlyWhenValueNeeded ==
    C29_Disconnected =>
        /\ conv.trampoline \in {"closure", "sourceFunc", "compareDataFunc"}
             => conv.result.panic
        /\ conv.trampoline \in {"destroy", "asyncReady"} => ~conv.result.panic

\* A destroy callback whose result channel disconnected: the wait panics.
C29_DestroyPanicked ==
    /\ C29_Disconnected
    /\ conv.trampoline = "destroy"
    /\ conv.result.panic

\* What does hold: the disconnect is fatal for every trampoline kind.
C29_FatalForEveryKind == C29_Disconnected => conv.result.panic


\* -------------------------------------------------------------------------
\* C30: library resolution tries the comma-separated alternatives from left to
\* right and uses the first that loads, cached under the full name so that
\* later calls do not reload it; if none loads, the single error reports the
\* failure of every attempted alternative.
\* -------------------------------------------------------------------------
C30_LookedUp == conv.phase = "library" /\ conv.lookups > 0

\* The first alternative that loads is used, nothing after it is opened, and a
\* cached name opens nothing.
C30_FirstThatLoads ==
    C30_LookedUp =>
        /\ conv.cached => conv.found.ok /\ conv.found.opened = <<>>
        /\ (~conv.cached /\ conv.found.ok) =>
             \E i \in 1..Len(conv.name) :
                /\ conv.name[i] \in conv.loadable
                /\ \A j \in 1..(i - 1) : conv.name[j] \notin conv.loadable
                /\ conv.found.lib = conv.name[i]
                /\ conv.found.opened = SubSeq(conv.name, 1, i)
        /\ conv.found.ok => /\ conv.name \in DOMAIN conv.libraries
                            /\ conv.libraries[conv.name] = conv.found.lib
        /\ ~conv.found.ok => /\ \A i \in 1..Len(conv.name) : conv.name[i] \notin conv.loadable
                             /\ conv.found.opened = conv.name

C30_Resolution ==
    /\ C30_FirstThatLoads
    /\ (C30_LookedUp /\ ~conv.found.ok) => conv.found.error.failures = conv.found.opened

\* Two alternatives were tried and neither loaded: the error carries the
\* failure of the second only.
C30_OnlyLastFailureReported ==
    /\ C30_LookedUp
    /\ ~conv.found.ok
    /\ Len(conv.found.opened) = 2
    /\ conv.found.error.failures = <<conv.name[2]>>

\* A second alternative was used after the first failed to load.
C30_SecondAlternativeUsed ==
    /\ C30_LookedUp
    /\ conv.found.ok
    /\ ~conv.cached
    /\ Len(conv.found.opened) = 2


\* =========================================================================
\* alloc(), write() and read() on the bytes of an allocation
\* =========================================================================
\* The task at the top of the loop thread's stack works on the block whose
\* bytes are followed in conv.
TrackedTask == conv.phase = "memory" /\ op_obj[Top(gtk).id] = conv.id

\* The task of alloc(), handle_alloc, on the first block allocated:
\* g_malloc0(size) returns null for size 0 and handle_alloc bails ("Failed to
\* allocate memory"); otherwise the zeroed block is wrapped as an owned boxed
\* object and registered with ObjectId::new.  Its bytes are followed from here.
memory_alloc ==
    /\ GtkTopIs("alloc", "run")
    /\ conv.phase = "idle"
    /\ LET i == Top(gtk).id IN
       \E size \in {0, AllocSize} :
         IF size = 0
         THEN /\ op_val' = [op_val EXCEPT ![i] = [t |-> "error"]]
              /\ UNCHANGED <<object_map, next_object_id, issued, conv>>
         ELSE /\ next_object_id <= MaxObjects
              /\ \E a \in Addrs :
                   LET n == ObjectId_new(object_map, next_object_id, a) IN
                   /\ object_map' = n.map
                   /\ next_object_id' = n.next
                   /\ issued' = Append(issued, n.id)
                   /\ op_val' = [op_val EXCEPT
                                   ![i] = [t |-> "object", id |-> n.id, addr |-> a]]
                   /\ conv' = [phase |-> "memory", id |-> n.id, mem |-> g_malloc0(size),
                               before |-> g_malloc0(size), writes |-> 0, w |-> NoAccess,
                               rd |-> NoAccess, ub |-> FALSE]
    /\ result' = [result EXCEPT ![Top(gtk).id] = "ok"]
    /\ accessors' = accessors \cup {"loop"}
    /\ gtk' = Pop(gtk)
    /\ UNCHANGED <<shared, pending, channel, cb, js, app_hold_guard, loop_running,
                   enqueued, started, next_op, next_cb, signals>>
    /\ UNCHANGED <<finalized, op_obj, op_arg, native_ptrs, ffi_source>>

\* The task of write(), handle_write, on the followed block: the identity is
\* resolved, `(type_, value)` is matched (a value that does not fit the type
\* is the error "Unsupported field type for write", nothing is stored), then
\* the value is stored at ptr + offset.  A store that reaches past the
\* allocation is undefined: the task completes, the bytes of the block it
\* covers written, or the process does not get past it.
memory_write ==
    /\ GtkTopIs("write", "run")
    /\ TrackedTask
    /\ ~conv.ub
    /\ LET i == Top(gtk).id
           o == op_obj[i]
           r == ObjectId_as_ptr(object_map, o)
       IN \E t \in ScalarTypes, offset \in FieldOffsets, v \in FieldValues :
            LET w == write_field(conv.mem, t, offset, v) IN
            \/ /\ r.t # "none" /\ w.ok /\ offset + SizeOf(t) > Len(conv.mem)
               /\ conv' = [conv EXCEPT !.ub = TRUE]
               /\ UNCHANGED <<dispatch, registry>>
            \/ /\ IF r.t = "none"
                  THEN /\ op_val' = [op_val EXCEPT ![i] = [t |-> "error"]]
                       /\ UNCHANGED <<native_ptrs, conv>>
                  ELSE /\ op_val' = [op_val EXCEPT
                                       ![i] = [t |-> IF w.ok THEN "value" ELSE "error"]]
                       /\ native_ptrs' = IF w.ok THEN native_ptrs \cup {<<o, r.ptr>>}
                                         ELSE native_ptrs
                       /\ conv' = [conv EXCEPT
                                     !.mem = w.mem, !.before = conv.mem,
                                     !.writes = @ + 1,
                                     !.w = [type |-> t, offset |-> offset, value |-> v,
                                            ok |-> w.ok],
                                     !.rd = NoAccess]
               /\ result' = [result EXCEPT ![i] = "ok"]
               /\ accessors' = accessors \cup {"loop"}
               /\ gtk' = Pop(gtk)
               /\ UNCHANGED <<shared, pending, channel, cb, js, app_hold_guard,
                              loop_running, enqueued, started, next_op, next_cb, signals>>
               /\ UNCHANGED <<object_map, next_object_id, issued, finalized, op_obj,
                              op_arg>>
    /\ UNCHANGED ffi_source

\* The task of read(), handle_read, on the followed block with a scalar field
\* type: the identity is resolved and the field read at ptr + offset.  A read
\* that reaches past the allocation is undefined: the task completes with a
\* value made of bytes that are not the block's, or the process does not get
\* past it; only the reads of fields inside the block are followed.
memory_read ==
    /\ GtkTopIs("read", "run")
    /\ TrackedTask
    /\ ~conv.ub
    /\ LET i == Top(gtk).id
           o == op_obj[i]
           r == ObjectId_as_ptr(object_map, o)
       IN \E t \in ScalarTypes, offset \in FieldOffsets :
            LET inside == offset + SizeOf(t) <= Len(conv.mem) IN
            \/ /\ r.t # "none" /\ ~inside
               /\ conv' = [conv EXCEPT !.ub = TRUE]
               /\ UNCHANGED <<dispatch, registry>>
            \/ /\ IF r.t = "none"
                  THEN /\ op_val' = [op_val EXCEPT ![i] = [t |-> "error"]]
                       /\ UNCHANGED <<native_ptrs, conv>>
                  ELSE /\ op_val' = [op_val EXCEPT ![i] = [t |-> "value"]]
                       /\ native_ptrs' = native_ptrs \cup {<<o, r.ptr>>}
                       /\ conv' = IF inside
                                  THEN [conv EXCEPT
                                          !.rd = [type |-> t, offset |-> offset,
                                                  out |-> read_field(conv.mem, t, offset)]]
                                  ELSE conv
               /\ result' = [result EXCEPT ![i] = "ok"]
               /\ accessors' = accessors \cup {"loop"}
               /\ gtk' = Pop(gtk)
               /\ UNCHANGED <<shared, pending, channel, cb, js, app_hold_guard,
                              loop_running, enqueued, started, next_op, next_cb, signals>>
               /\ UNCHANGED <<object_map, next_object_id, issued, finalized, op_obj,
                              op_arg>>
    /\ UNCHANGED ffi_source

\* The scripting code allocates, writes, reads and stops; each entry point
\* schedules its task (alloc and write on ffi_source, read on gtk_dispatch)
\* and blocks in `rx.recv()` until the task has sent its result or has been
\* dropped.  The tasks that work on another block or object are the ones of
\* handle_alloc, handle_write and handle_read above.
MemNext ==
    \/ alloc
    \/ write
    \/ read
    \/ stop
    \/ ffi_schedule_push
    \/ ffi_schedule_cas
    \/ schedule_load_stopped
    \/ schedule_push
    \/ schedule_cas
    \/ alloc_recv
    \/ write_recv
    \/ read_recv
    \/ stop_recv
    \/ ffi_dispatch_batch_begin
    \/ ffi_dispatch_batch_pop
    \/ ffi_dispatch_batch_rearm
    \/ dispatch_batch_begin
    \/ dispatch_batch_pop
    \/ dispatch_batch_rearm
    \/ memory_alloc
    \/ (handle_alloc /\ conv.phase # "idle")
    \/ memory_write
    \/ (handle_write /\ ~TrackedTask)
    \/ memory_read
    \/ (handle_read /\ ~TrackedTask)
    \/ stop_task
    \/ main_loop_exit

MemSpec == Init /\ [][MemNext]_vars

\* -------------------------------------------------------------------------
\* C31: every field of a freshly allocated boxed object reads as zero; after
\* write(I, T, offset, V) with V in the range of the scalar type T,
\* read(I, T, offset) returns V; a write changes no byte outside
\* [offset, offset + size of T).
\* -------------------------------------------------------------------------
C31_HasRead == conv.phase = "memory" /\ conv.rd # NoAccess

ZeroOf(t) ==
    IF t.k = "boolean" THEN [tag |-> "boolean", b |-> FALSE]
    ELSE [tag |-> "number", num |-> Zero]

C31_FreshReadsZero ==
    (C31_HasRead /\ conv.writes = 0) => conv.rd.out = ZeroOf(conv.rd.type)

C31_ReadsBackWritten ==
    (/\ C31_HasRead
     /\ conv.writes > 0
     /\ conv.w.ok
     /\ InRange(conv.w.value, conv.w.type)
     /\ conv.rd.type = conv.w.type
     /\ conv.rd.offset = conv.w.offset)
        => conv.rd.out = conv.w.value

C31_WriteFrame ==
    (conv.phase = "memory" /\ conv.writes > 0) =>
        \A j \in 1..Len(conv.mem) :
            (~conv.w.ok \/ j - 1 \notin conv.w.offset..(conv.w.offset + SizeOf(conv.w.type) - 1))
                => conv.mem[j] = conv.before[j]

C31_FieldRoundTrip ==
    /\ C31_FreshReadsZero
    /\ C31_ReadsBackWritten
    /\ C31_WriteFrame

\* The scenario: int32 42 written at offset 0 of fresh memory and read back,
\* the bytes from offset 4 on still zero.
C31_Witness ==
    /\ C31_HasRead
    /\ conv.writes = 1
    /\ conv.w = [type |-> [k |-> "int", size |-> 32, signed |-> TRUE], offset |-> 0,
                 value |-> [tag |-> "number", num |-> Norm(1, 21, 1)], ok |-> TRUE]
    /\ conv.rd.type = conv.w.type
    /\ conv.rd.offset = 0
    /\ conv.rd.out = [tag |-> "number", num |-> Norm(1, 21, 1)]
    /\ conv.mem[5] = ZeroByte

\* A second write next to a first one that left the first one's bytes alone.
C31_SecondWriteKeepsFirst ==
    /\ conv.phase = "memory"
    /\ conv.writes = 2
    /\ conv.w.ok
    /\ conv.w.offset = 4
    /\ conv.mem[1] # ZeroByte
    /\ conv.mem[5] # ZeroByte


\* -------------------------------------------------------------------------
\* C32: when a call() or batchCall() ends because its result channel
\* disconnected, the waiting depth is back at its value before the call, and
\* the task queue, the pending-callback queue and the object registry hold no
\* entry of the failed call.
\* -------------------------------------------------------------------------
\* The step in which wait_for_result takes its Disconnected arm.
C32_FailingStep ==
    /\ JsTopIn(CallKinds, "try_recv")
    /\ result[Top(js).id] = "disconnected"
    /\ result'[Top(js).id] = "failed"

C32_FailureStep ==
    C32_FailingStep =>
        /\ JS_WAIT_DEPTH' = JS_WAIT_DEPTH - 1
        /\ JS_WAIT_DEPTH' = Len(CallFrameIds(js'))
        /\ js' = Pop(js)
        /\ QUEUE' = QUEUE
        /\ pending' = pending
        /\ object_map' = object_map
        /\ next_object_id' = next_object_id

C32_NothingLeftInv ==
    \A i \in StartedOps :
        result[i] = "failed" =>
            /\ i \notin QueuedIds
            /\ i \notin StartedIds
            /\ \A c \in FiredCbs : cb[c].owner # i
            /\ ~RegisteredBy(i)
            /\ ~Waiting(i)

C32_FailedCallLeavesNothing == []C32_NothingLeftInv /\ [][C32_FailureStep]_vars

\* A call issued from inside a callback failed on a disconnected channel while
\* the call whose task fired that callback is still waiting.
C32_Witness ==
    /\ JS_WAIT_DEPTH = 1
    /\ \E i, j \in StartedOps :
          /\ result[i] = "failed"
          /\ j < i
          /\ Waiting(j)


\* -------------------------------------------------------------------------
\* C33: GtkThreadState::with is never entered while another invocation of it is
\* active on the loop thread, also when the removal of a registry entry inside
\* it drops the native object and that drop fires a signal whose handler
\* registers an object.
\* -------------------------------------------------------------------------
C33_NoReentrantAccess ==
    conv.phase = "access" => (conv.max_active <= 1 /\ ~conv.panicked)

\* The removal dropped the last reference, the handler of the dispose signal
\* converted its object argument and ObjectId::new entered with() inside with().
C33_EnteredInsideRemoval ==
    /\ conv.phase = "access"
    /\ conv.pc = "new"
    /\ conv.map = {}
    /\ conv.active = 2
    /\ conv.panicked

\* What does hold: no second invocation when the removal does not dispose the
\* object or no handler runs.
C33_SingleAccessOtherwise ==
    (conv.phase = "access" /\ ~(conv.last_ref /\ conv.handler))
        => (conv.max_active <= 1 /\ ~conv.panicked)


\* -------------------------------------------------------------------------
\* C34: backing storage owned by a marshaled argument (string buffer, numeric
\* buffer, pointer array, out-parameter slot) is released only after the native
\* call has returned and the out-parameters have been read back; it is never
\* released while the native call is in progress.
\* -------------------------------------------------------------------------
C34_InFrame == conv.phase = "frame"

\* Indices of the converted arguments that own storage.
C34_Owning ==
    {i \in 1..conv.n : try_from_frame_arg(conv.args[i]).owned}

C38_FailedBeforeCall == conv.phase = "frame" /\ conv.pc = "failed"

C38_FailureLeavesNoRefs ==
    C38_FailedBeforeCall => (conv.refs = 0 /\ conv.copies = 0)

\* A non-borrowed object argument was converted (one reference taken), then the
\* next argument failed to marshal.
C38_RefKeptAfterFailure ==
    /\ C38_FailedBeforeCall
    /\ conv.args = <<"gobject_full", "bad">>
    /\ conv.refs = 1

\* What does hold: the storage the failed call owned has been released, and a
\* failed call without non-borrowed object arguments took no reference and
\* made no copy.
C38_FailureReleasesStorage ==
    C38_FailedBeforeCall =>
        /\ conv.owned = {}
        /\ conv.released = C34_Owning
        /\ (\A i \in 1..conv.n : conv.args[i] \notin {"gobject_full", "boxed_full"})
             => (conv.refs = 0 /\ conv.copies = 0)


\* -------------------------------------------------------------------------
\* C35: every loop-to-scripting callback request gets exactly one result sent
\* on its result channel, after the callback has been executed, on the
\* synchronous-queue path and on the channel path; no request is answered
\* twice and none that was executed is left unanswered.
\* -------------------------------------------------------------------------
\* Frames of the scripting stack that execute callback c, and places where the
\* request c waits to be executed.
C35_Frames(c) == {n \in 1..Len(js) : js[n].k = "cb" /\ js[n].id = c}
C35_Waiting(c) ==
    Cardinality({n \in 1..Len(pending) : pending[n] = c})
        + Cardinality({n \in 1..Len(channel) : channel[n] = c})

C35_RequestInv ==
    \A c \in CbIds :
        /\ Cardinality(C35_Frames(c)) = (IF cb[c].st = "running" THEN 1 ELSE 0)
        /\ C35_Waiting(c) = (IF cb[c].st = "queued" THEN 1 ELSE 0)

C35_RequestStep ==
    \A c \in CbIds :
        /\ (cb[c].st # "running" /\ cb'[c].st = "running") => cb[c].st = "queued"
        /\ (cb[c].st # "sent" /\ cb'[c].st = "sent") =>
              /\ cb[c].st = "running"
              /\ JsTopIs("cb", "run")
              /\ Top(js).id = c
              /\ js' = Pop(js)
        /\ (cb[c].st = "running" /\ cb'[c].st # "running") => cb'[c].st = "sent"
        /\ cb[c].st = "sent" => cb'[c].st \in {"sent", "taken"}
        /\ cb[c].st = "taken" => cb'[c].st = "taken"

C35_OneResultPerRequest == []C35_RequestInv /\ [][C35_RequestStep]_vars

\* One request went through the synchronous queue and one through the channel;
\* both were executed and answered.
C35_Witness ==
    \E c, d \in FiredCbs :
        /\ cb[c].path = "sync" /\ cb[c].st \in {"sent", "taken"}
        /\ cb[d].path = "chan" /\ cb[d].st \in {"sent", "taken"}


\* -------------------------------------------------------------------------
\* C36: for an out-parameter whose inner type is object or boxed: a wrapper
\* that already holds an object identity has that object's pointer passed
\* directly, records no pending update and keeps its identity; a wrapper that
\* holds null has the address of a fresh pointer slot passed and records
\* exactly one update, holding a newly registered identity if native code wrote
\* a non-null pointer and null otherwise.
\* -------------------------------------------------------------------------
C36_ObjectOutParam(a) ==
    a.type.k = "ref" /\ a.type.of \in {"gobject", "boxed"} /\ a.value.tag = "ref"

\* The updates recorded for argument i.
C36_UpdatesOf(i) == {j \in 1..Len(conv.updates) : conv.updates[j].arg = i}

C36_ReadBackDone ==
    /\ conv.phase = "invoke"
    /\ conv.log # <<>>
    /\ conv.log[Len(conv.log)] = "read_back"

\* C36, as stated: the wrapper holding null records exactly one update in every
\* call whose native function ran.
C36_ObjectOutParams ==
    C36_ReadBackDone =>
        /\ \A i \in 1..Len(conv.args) :
            C36_ObjectOutParam(conv.args[i]) =>
                /\ conv.args[i].value.of = "object" =>
                      /\ cif_variant(conv.args[i]) = "Ptr"
                      /\ C36_UpdatesOf(i) = {}
                /\ conv.args[i].value.of = "null" =>
                      /\ cif_variant(conv.args[i]) = "OwnedPtr"
                      /\ Cardinality(C36_UpdatesOf(i)) = 1
                      /\ \A j \in C36_UpdatesOf(i) :
                            conv.updates[j].value =
                                (IF conv.storage[i].tag = "object" THEN [tag |-> "object"]
                                 ELSE [tag |-> "null"])
        /\ conv.pc = "done" =>
              /\ Len(conv.registered) =
                    Cardinality({j \in 1..Len(conv.updates) :
                                    conv.updates[j].value = [tag |-> "object"]})
                        + ResultObjects(conv.ret)
              /\ \A j \in 1..Len(conv.registered) :
                    /\ conv.registered[j] \in DOMAIN object_map
                    /\ conv.registered[j] >= StartedRegistry.next

\* C36, amended: for an out-parameter whose inner type is object or boxed, a
\* wrapper that already holds an object identity has that object's pointer
\* passed directly and records no update; a wrapper that holds null has the
\* address of a fresh pointer slot passed and, when the call succeeds, records
\* exactly one update, holding a newly registered identity if native code wrote
\* a non-null pointer and null otherwise.  When the call returns an error after
\* the native function ran, no update is recorded for it.  Reading such
\* out-parameters back never fails by itself.
C36_ObjectOutParamsOnSuccess ==
    C36_ReadBackDone =>
        /\ \A i \in 1..Len(conv.args) :
            C36_ObjectOutParam(conv.args[i]) =>
                /\ conv.args[i].value.of = "object" =>
                      /\ cif_variant(conv.args[i]) = "Ptr"
                      /\ C36_UpdatesOf(i) = {}
                /\ conv.args[i].value.of = "null" =>
                      /\ cif_variant(conv.args[i]) = "OwnedPtr"
                      /\ conv.pc = "done" =>
                            /\ Cardinality(C36_UpdatesOf(i)) = 1
                            /\ \A j \in C36_UpdatesOf(i) :
                                  conv.updates[j].value =
                                      (IF conv.storage[i].tag = "object"
                                       THEN [tag |-> "object"] ELSE [tag |-> "null"])
                      /\ conv.pc # "done" => C36_UpdatesOf(i) = {}
        /\ conv.pc = "done" =>
              /\ Len(conv.registered) =
                    Cardinality({j \in 1..Len(conv.updates) :
                                    conv.updates[j].value = [tag |-> "object"]})
                        + ResultObjects(conv.ret)
              /\ \A j \in 1..Len(conv.registered) :
                    /\ conv.registered[j] \in DOMAIN object_map
                    /\ conv.registered[j] >= StartedRegistry.next
        /\ ((\A i \in 1..Len(conv.args) : C36_ObjectOutParam(conv.args[i]))
               /\ conv.ret # "bad_utf8")
              => conv.pc = "done"

\* C36, the case the statement leaves out: a wrapper holding null came after an
\* out-parameter whose read-back failed; native code wrote an object into its
\* slot and nothing was recorded or registered for it.
C36_SlotNeverRead ==
    /\ C36_ReadBackDone
    /\ conv.pc = "error"
    /\ Len(conv.args) = 2
    /\ ~C36_ObjectOutParam(conv.args[1])
    /\ C36_ObjectOutParam(conv.args[2]) /\ conv.args[2].value.of = "null"
    /\ conv.storage[2] = [tag |-> "object"]
    /\ conv.updates = <<>>
    /\ conv.registered = <<>>

\* One call with both forms: the wrapper holding an identity got no update, the
\* wrapper holding null got the object native code wrote.
C36_Witness ==
    /\ C36_ReadBackDone
    /\ conv.pc = "done"
    /\ Len(conv.args) = 2
    /\ C36_ObjectOutParam(conv.args[1]) /\ conv.args[1].value.of = "object"
    /\ C36_ObjectOutParam(conv.args[2]) /\ conv.args[2].value.of = "null"
    /\ conv.updates = <<[arg |-> 2, value |-> [tag |-> "object"]]>>


\* -------------------------------------------------------------------------
\* C37: every task accepted into the loop-thread queue is executed at most once
\* and only by the loop thread, also when the idle-driven drain and the
\* re-entrant drain are nested: a task that blocks in a trampoline round trip
\* lets later tasks run and complete before it resumes.
\* -------------------------------------------------------------------------
\* Frames of the loop thread that execute task i.
C37_TaskFrames(i) == {n \in 1..Len(gtk) : gtk[n].k \in OpKinds /\ gtk[n].id = i}

C37_ExecutedOnceInv ==
    /\ \A m, n \in 1..Len(started) : started[m] = started[n] => m = n
    /\ \A m, n \in 1..Len(QUEUE) : QUEUE[m].id = QUEUE[n].id => m = n
    /\ StartedIds \subseteq EnqueuedIds
    /\ StartedIds \cap QueuedIds = {}
    /\ \A i \in OpIds :
          /\ Cardinality(C37_TaskFrames(i)) <= 1
          /\ C37_TaskFrames(i) # {} => i \in StartedIds
    /\ \A n \in 1..Len(js) : js[n].pc # "run" \/ js[n].k = "cb"

\* A task starts by being popped from the queue by a drain of the loop thread.
C37_StartStep ==
    started' # started =>
        /\ \/ GtkTopIs("dispatch_batch", "pop")
           \/ GtkTopIs("dispatch_pending", "pop")
        /\ QUEUE # <<>>
        /\ started' = Append(started, Queue_front(QUEUE).id)
        /\ QUEUE' = Queue_pop(QUEUE)
        /\ js' = js
        /\ Top(gtk').id = Queue_front(QUEUE).id

C37_TasksExecutedOnce == []C37_ExecutedOnceInv /\ [][C37_StartStep]_vars

\* A task is blocked in a trampoline round trip inside the idle-driven drain; a
\* task queued later was run by the re-entrant drain and has completed.
C37_Witness ==
    \E m, n \in 1..Len(gtk) :
        /\ m < n
        /\ gtk[1].k = "dispatch_batch"
        /\ gtk[m].k \in CallKinds
        /\ gtk[n].k = "trampoline"
        /\ \E i \in StartedIds :
              /\ i > gtk[m].id
              /\ result[i] \in {"ok", "taken"}
              /\ C37_TaskFrames(i) = {}


\* =========================================================================
\* Entry points after stop()
\* =========================================================================

\* stop() has returned to the scripting code: its task has run and set the flag,
\* and no stop frame is left on the scripting stack.  `join_gtk_thread()` finds no
\* handle to join (nothing calls set_gtk_thread_handle) and returns at once, so
\* the loop thread may still be on its way out.
stop_completed ==
    /\ STOPPED
    /\ \A n \in 1..Len(js) : js[n].k # "stop"

StopBound == next_op <= LiveMaxOps + 1

StopJsStep ==
    \/ schedule_load_stopped
    \/ schedule_push
    \/ schedule_cas
    \/ ffi_schedule_push
    \/ ffi_schedule_cas
    \/ process_pending
    \/ wait_for_result_try_recv
    \/ get_object_id_recv
    \/ read_recv
    \/ alloc_recv
    \/ write_recv
    \/ stop_recv

StopGtkStep ==
    \/ dispatch_batch_begin
    \/ dispatch_batch_pop
    \/ dispatch_batch_rearm
    \/ ffi_dispatch_batch_begin
    \/ ffi_dispatch_batch_pop
    \/ ffi_dispatch_batch_rearm
    \/ task_finish
    \/ get_object_id_task
    \/ handle_read
    \/ handle_alloc
    \/ handle_write
    \/ stop_task
    \/ main_loop_exit

\* The scripting code uses every entry point that needs the loop thread, before
\* and after stop(); no callback is fired, so the scripting stack holds at most
\* one operation.
StopNext ==
    \/ (call /\ StopBound')
    \/ (batch_call /\ StopBound')
    \/ (get_object_id /\ StopBound')
    \/ (read /\ StopBound')
    \/ (alloc /\ StopBound')
    \/ (write /\ StopBound')
    \/ (stop /\ StopBound')
    \/ StopJsStep
    \/ StopGtkStep

StopSpec == Init /\ [][StopNext]_vars /\ WF_vars(StopJsStep) /\ WF_vars(StopGtkStep)

\* Entry points that need the loop thread, by the queue their task goes to.
C39_DispatchKinds == {"call", "batchCall", "read", "getObjectId"}

\* Operation i has just been entered by the scripting code after stop() completed.
C39_EnteredAfterStop(i, kinds) ==
    /\ stop_completed
    /\ js # <<>>
    /\ Top(js).id = i
    /\ Top(js).k \in kinds
    /\ Top(js).pc \in {"load_stopped", "ffi_push"}

\* Operation i has returned an error to its caller.
C39_ReturnedError(i) ==
    /\ result[i] = "failed"
    /\ \A n \in 1..Len(js) : js[n].id # i

\* C39: after stop() has completed, every later call, batchCall, read, write,
\* alloc and getObjectId returns an error to its caller; none of them blocks
\* forever on a task that will never run.
C39_EntryPointsFailAfterStop ==
    \A i \in 1..MaxOps :
        [](C39_EnteredAfterStop(i, C39_DispatchKinds \cup FfiKinds)
              => <>C39_ReturnedError(i))

\* C39, an alloc() or write() entered after stop() completed: its task is in the
\* ffi_source queue, the loop thread has ended, and the caller is blocked in
\* `rx.recv()` on a channel that is neither written nor closed.
C39_BlockedAfterStop ==
    /\ stop_completed
    /\ ~loop_running
    /\ JsTopIn(FfiKinds, "recv")
    /\ result[Top(js).id] = "empty"
    /\ \E n \in 1..Len(FFI_QUEUE) : FFI_QUEUE[n].id = Top(js).id
    /\ ~ENABLED StopNext

\* C39, the entry points that go through gtk_dispatch::schedule: entered after
\* stop() completed, call, batchCall, read and getObjectId return an error.
C39_DispatchEntryPointsFail ==
    \A i \in 1..MaxOps :
        [](C39_EnteredAfterStop(i, C39_DispatchKinds) => <>C39_ReturnedError(i))

\* C39, a call entered after stop() completed has returned its error.
C39_CallFailedAfterStop ==
    /\ stop_completed
    /\ js = <<>>
    /\ \E i \in 1..MaxOps : result[i] = "failed"


\* =========================================================================
\* start() after stop()
\* =========================================================================

\* Variant: start() also clears the stopped flag.
start_resetting_stopped ==
    /\ js = <<>>
    /\ ~loop_running
    /\ gtk = <<>>
    /\ js' = <<JsFrame("start", "recv", 0)>>
    /\ gtk' = <<GtkFrame("start", "new", 0, FALSE)>>
    /\ STOPPED' = FALSE
    /\ UNCHANGED <<QUEUE, DISPATCH_SCHEDULED, JS_WAIT_DEPTH, idle_sources, pending,
                   channel, result, cb, app_hold_guard, loop_running, enqueued, started,
                   next_op, next_cb, signals>>
    /\ UNCHANGED ext

\* start(), called again once the loop thread has ended: mpsc::channel,
\* std::thread::spawn, then the scripting thread blocks in `rx.recv()`.
\* Nothing in it touches STOPPED.
start ==
    /\ js = <<>>
    /\ ~loop_running
    /\ gtk = <<>>
    /\ js' = <<JsFrame("start", "recv", 0)>>
    /\ gtk' = <<GtkFrame("start", "new", 0, FALSE)>>
    /\ UNCHANGED <<shared, pending, channel, result, cb, app_hold_guard, loop_running,
                   enqueued, started, next_op, next_cb, signals>>
    /\ UNCHANGED ext

\* The spawned thread builds the application and registers it:
\* `ObjectId::new(Object::GObject(app.clone().into()))`, the first access to
\* the thread-local GtkThreadState of the new thread, which starts from its
\* default.
start_register ==
    /\ GtkTopIs("start", "new")
    /\ \E a \in Addrs :
         LET n == ObjectId_new(EmptyMap, 1, a) IN
         /\ object_map' = n.map
         /\ next_object_id' = n.next
         /\ issued' = Append(issued, n.id)
    /\ accessors' = accessors \cup {"loop"}
    /\ gtk' = SetTopPc(gtk, "hold")
    /\ UNCHANGED <<shared, pending, channel, result, cb, js, app_hold_guard, loop_running,
                   enqueued, started, next_op, next_cb, signals>>
    /\ UNCHANGED <<finalized, op_obj, op_arg, op_val, native_ptrs, ffi_source, conv>>

\* `state.app_hold_guard = Some(app.hold())`; connect_activate follows.
start_hold ==
    /\ GtkTopIs("start", "hold")
    /\ app_hold_guard' = TRUE
    /\ gtk' = SetTopPc(gtk, "run")
    /\ UNCHANGED <<shared, pending, channel, result, cb, js, loop_running,
                   enqueued, started, next_op, next_cb, signals>>
    /\ UNCHANGED ext

\* `app.run_with_args(..)`: the main loop runs; or run returns at once (the
\* application cannot register) and the thread ends.  Its thread-local state is
\* destroyed, which drops the hold guard, but object_map is a ManuallyDrop
\* (state.rs:50): the registered application is never released, its activation
\* handler keeps the sender, and `rx.recv()` in start() never returns.
start_run ==
    /\ GtkTopIs("start", "run")
    /\ gtk' = <<>>
    /\ \/ /\ loop_running' = TRUE
          /\ UNCHANGED app_hold_guard
       \/ /\ app_hold_guard' = FALSE
          /\ UNCHANGED loop_running
    /\ UNCHANGED <<shared, pending, channel, result, cb, js, enqueued, started, next_op,
                   next_cb, signals>>
    /\ UNCHANGED ext

\* The application is activated: the handler sends the identity,
\* `tx.send(app_object_id)`.  Nothing forces the activation to come.
start_activate ==
    /\ gtk = <<>>
    /\ loop_running
    /\ JsTopIs("start", "recv")
    /\ js' = SetTopPc(js, "ready")
    /\ UNCHANGED <<shared, pending, channel, result, cb, gtk, app_hold_guard,
                   loop_running, enqueued, started, next_op, next_cb, signals>>
    /\ UNCHANGED ext

\* `rx.recv()` in start() returns the identity sent by the activation handler,
\* which is boxed and returned.  The sender lives in the handler of an
\* application that is never released, so recv never fails.
start_recv ==
    /\ JsTopIs("start", "ready")
    /\ js' = Pop(js)
    /\ UNCHANGED <<shared, pending, channel, result, cb, gtk, app_hold_guard,
                   loop_running, enqueued, started, next_op, next_cb, signals>>
    /\ UNCHANGED ext

RestartJsStep ==
    \/ schedule_load_stopped
    \/ schedule_push
    \/ schedule_cas
    \/ process_pending
    \/ wait_for_result_try_recv
    \/ stop_recv
    \/ start_recv

RestartGtkStep ==
    \/ dispatch_batch_begin
    \/ dispatch_batch_pop
    \/ dispatch_batch_rearm
    \/ task_finish
    \/ stop_task
    \/ main_loop_exit
    \/ start_register
    \/ start_hold
    \/ start_run

\* The scripting code calls, stops and, once the loop thread has ended, starts
\* again; no callback is fired.
RestartNext ==
    \/ call
    \/ stop
    \/ start
    \/ start_activate
    \/ RestartJsStep
    \/ RestartGtkStep

RestartSpec ==
    Init /\ [][RestartNext]_vars /\ WF_vars(RestartJsStep) /\ WF_vars(RestartGtkStep)

\* Once set, the flag stays set.
C40_StoppedStep == STOPPED => STOPPED'

\* A stop() that finds the flag set: schedule() returns without pushing, which
\* drops the task and closes its channel.
C40_DiscardStep ==
    (STOPPED /\ JsTopIs("stop", "load_stopped") /\ js' # js)
        => /\ QUEUE' = QUEUE
           /\ enqueued' = enqueued
           /\ idle_sources' = idle_sources
           /\ result'[Top(js).id] = "disconnected"

\* C40: the stopped flag is monotonic: once stop's task has set it, it is true in
\* every later state (nothing, including a later start(), clears it), and a
\* stop() entered afterwards has its task discarded and returns an error
\* instead of waiting or succeeding.
C40_StoppedIsMonotonic ==
    /\ [][C40_StoppedStep /\ C40_DiscardStep]_vars
    /\ \A i \in 1..MaxOps :
         [](STOPPED /\ JsTopIs("stop", "load_stopped") /\ Top(js).id = i
               => <>(result[i] = "stop_failed" /\ js = <<>>))

\* C40, the case: the loop was stopped and started again, and a second stop() has
\* returned its error with the flag still set.
C40_Witness ==
    /\ STOPPED
    /\ loop_running
    /\ app_hold_guard
    /\ js = <<>>
    /\ \E i \in 1..MaxOps : result[i] = "stop_failed"
    /\ \E i \in 1..MaxOps : result[i] = "taken"

====
